---- MODULE Spec2Model ----
(***************************************************************************)
(* Model of the fairness benchmark engine (fairness_benchmark.cpp, second  *)
(* FairnessBenchmark class, and the sequential_benchmark.cpp variant).     *)
(*                                                                         *)
(* A std::string is a sequence of one-character strings; positions in the  *)
(* std::string helpers are 0-based as in C++, and Npos stands for          *)
(* std::string::npos.                                                      *)
(***************************************************************************)
EXTENDS Integers, Sequences, FiniteSets, TLC

\* ------------------------------------------------------------------------
\* Bounds of the model
\* ------------------------------------------------------------------------
\* longest configuration text (in lines) the parser specification enumerates
MaxLines == 3
\* how many times parse_config_file is applied to one engine
MaxParses == 2

\* ------------------------------------------------------------------------
\* std::string helpers
\* ------------------------------------------------------------------------
Npos == -1

SetMin(S) == CHOOSE x \in S : \A y \in S : x <= y
SetMax(S) == CHOOSE x \in S : \A y \in S : y <= x

\* s.find(c, pos)
find(s, c, pos) ==
    LET hits == {i \in (pos + 1)..Len(s) : s[i] = c}
    IN  IF hits = {} THEN Npos ELSE SetMin(hits) - 1

\* s.substr(pos, n), for pos <= s.size()
substr(s, pos, n) ==
    LET last == IF pos + n < Len(s) THEN pos + n ELSE Len(s)
    IN  SubSeq(s, pos + 1, last)

\* s.substr(pos)
substr_from(s, pos) == SubSeq(s, pos + 1, Len(s))

IsBlank(c) == c \in {" ", "\t"}

\* s.erase(0, s.find_first_not_of(" \t"))
erase_leading(s) ==
    LET nb == {i \in 1..Len(s) : ~IsBlank(s[i])}
    IN  IF nb = {} THEN <<>> ELSE SubSeq(s, SetMin(nb), Len(s))

\* s.erase(s.find_last_not_of(" \t") + 1)
erase_trailing(s) ==
    LET nb == {i \in 1..Len(s) : ~IsBlank(s[i])}
    IN  IF nb = {} THEN <<>> ELSE SubSeq(s, 1, SetMax(nb))

Digits == <<"0", "1", "2", "3", "4", "5", "6", "7", "8", "9">>
IsDigit(c) == \E i \in 1..Len(Digits) : Digits[i] = c

RECURSIVE DecVal(_)
DecVal(ds) ==
    IF ds = <<>> THEN 0
    ELSE DecVal(SubSeq(ds, 1, Len(ds) - 1)) * 10
         + (CHOOSE i \in 1..Len(Digits) : Digits[i] = ds[Len(ds)]) - 1

\* the longest run of digits of s that starts at 1-based index from
DigitRun(s, from) ==
    LET ok == {k \in 0..(Len(s) - from + 1) :
                  \A j \in from..(from + k - 1) : IsDigit(s[j])}
    IN  SubSeq(s, from, from + SetMax(ok) - 1)

\* std::stoi(s): leading whitespace is skipped, an optional sign is read, then
\* the longest run of digits; text after the digits is ignored.  With no digit
\* std::invalid_argument is thrown (ok = FALSE).
StoiDigits(neg, ds) ==
    IF ds = <<>> THEN [ok |-> FALSE, val |-> 0]
    ELSE [ok |-> TRUE, val |-> (IF neg THEN -1 ELSE 1) * DecVal(ds)]
StoiSigned(t) ==
    IF t # <<>> /\ t[1] \in {"-", "+"}
    THEN StoiDigits(t[1] = "-", DigitRun(t, 2))
    ELSE StoiDigits(FALSE, DigitRun(t, 1))
stoi(s) == StoiSigned(erase_leading(s))

\* ------------------------------------------------------------------------
\* Words of the configuration grammar
\* ------------------------------------------------------------------------
\* the keys of the configuration file
K ==
    [phase_      |-> <<"p", "h", "a", "s", "e", "_">>,
     description |-> <<"d", "e", "s", "c", "r", "i", "p", "t", "i", "o", "n">>,
     file_size   |-> <<"f", "i", "l", "e", "_", "s", "i", "z", "e">>,
     block_size  |-> <<"b", "l", "o", "c", "k", "_", "s", "i", "z", "e">>,
     runtime     |-> <<"r", "u", "n", "t", "i", "m", "e">>,
     numjobs     |-> <<"n", "u", "m", "j", "o", "b", "s">>,
     iodepth     |-> <<"i", "o", "d", "e", "p", "t", "h">>,
     pattern     |-> <<"p", "a", "t", "t", "e", "r", "n">>,
     ioengine    |-> <<"i", "o", "e", "n", "g", "i", "n", "e">>,
     rate_iops   |-> <<"r", "a", "t", "e", "_", "i", "o", "p", "s">>,
     cgroup_name |-> <<"c", "g", "r", "o", "u", "p", "_", "n", "a", "m", "e">>]

\* ------------------------------------------------------------------------
\* Configuration model
\* ------------------------------------------------------------------------
\* PhaseConfig{0, "", 0, "", "", 0, "", 0}
NewPhaseConfig ==
    [runtime |-> 0, block_size |-> <<>>, iodepth |-> 0, pattern |-> <<>>,
     ioengine |-> <<>>, numjobs |-> 0, file_size |-> <<>>, rate_iops |-> 0]

\* WorkloadConfig(): value-initialised
NewWorkloadConfig ==
    [description |-> <<>>, file_size |-> <<>>, numjobs |-> 0, rate_iops |-> 0,
     block_size |-> <<>>, runtime |-> 0, iodepth |-> 0, pattern |-> <<>>,
     ioengine |-> <<>>, phases |-> <<>>]

EmptyMap == [x \in {} |-> x]

\* m[k] = v of a std::map
MapPut(m, k, v) == [x \in (DOMAIN m) \cup {k} |-> IF x = k THEN v ELSE m[x]]

\* the keys of a std::map<int, ...> in iteration order (ascending)
RECURSIVE KeysAscending(_)
KeysAscending(S) ==
    IF S = {} THEN <<>>
    ELSE LET k == SetMin(S) IN <<k>> \o KeysAscending(S \ {k})

\* a std::map that iterates from the largest key down
RECURSIVE KeysDescending(_)
KeysDescending(S) ==
    IF S = {} THEN <<>>
    ELSE LET k == SetMax(S) IN <<k>> \o KeysDescending(S \ {k})

\* the order in which "for (const auto& [phase_num, phase_config] : phase_map)"
\* visits the keys of phase_map
PhaseMapOrder(S) == KeysAscending(S)

\* The state of parse_config_file between two lines: its locals
\* (current_section, current_workload, phase_map), the workloads member, and
\* whether an exception has left the function.  nums records, per stored
\* section, the phase numbers in the order in which their PhaseConfig was
\* pushed onto phases (the code does not keep them).
ParserState(locals, w, n) ==
    [current_section |-> locals.current_section,
     current_workload |-> locals.current_workload,
     phase_map |-> locals.phase_map, workloads |-> w, nums |-> n, threw |-> FALSE]

\* the locals when parse_config_file starts; line_no counts the lines read
NewParser ==
    [line_no |-> 0, current_section |-> <<>>, current_workload |-> NewWorkloadConfig,
     phase_map |-> EmptyMap]

\* a parser that pushes the phases onto what workloads already holds for the
\* section, instead of assigning the section anew
StoreSectionAppending(st) ==
    IF st.current_section = <<>> THEN st
    ELSE LET order == PhaseMapOrder(DOMAIN st.phase_map)
             old == IF st.current_section \in DOMAIN st.workloads
                    THEN st.workloads[st.current_section].phases ELSE <<>>
             wl == [st.current_workload EXCEPT
                       !.phases = old \o [i \in 1..Len(order) |-> st.phase_map[order[i]]]]
         IN  [st EXCEPT !.current_workload = wl,
                        !.workloads = MapPut(@, st.current_section, wl),
                        !.nums = MapPut(@, st.current_section, order)]

\* "Convert phase_map to phases vector" and workloads[current_section] = ...
StoreSection(st) ==
    IF st.current_section = <<>> THEN st
    ELSE LET order == PhaseMapOrder(DOMAIN st.phase_map)
             wl == [st.current_workload EXCEPT
                       !.phases = @ \o [i \in 1..Len(order) |-> st.phase_map[order[i]]]]
         IN  [st EXCEPT !.current_workload = wl,
                        !.workloads = MapPut(@, st.current_section, wl),
                        !.nums = MapPut(@, st.current_section, order)]

\* a phase_<N>_<param> = value line
PhaseParam(st, key, value) ==
    LET underscore_pos == find(key, "_", 6)
        num   == stoi(substr(key, 6, underscore_pos - 6))
        param == substr_from(key, underscore_pos + 1)
        n     == num.val
        pm    == IF n \in DOMAIN st.phase_map THEN st.phase_map
                 ELSE MapPut(st.phase_map, n, NewPhaseConfig)
        iv    == stoi(value)
        isInt == param \in {K.runtime, K.iodepth, K.numjobs, K.rate_iops}
        isStr == param \in {K.block_size, K.pattern, K.ioengine, K.file_size}
        ph    == CASE param = K.runtime    -> [pm[n] EXCEPT !.runtime = iv.val]
                   [] param = K.block_size -> [pm[n] EXCEPT !.block_size = value]
                   [] param = K.iodepth    -> [pm[n] EXCEPT !.iodepth = iv.val]
                   [] param = K.pattern    -> [pm[n] EXCEPT !.pattern = value]
                   [] param = K.ioengine   -> [pm[n] EXCEPT !.ioengine = value]
                   [] param = K.numjobs    -> [pm[n] EXCEPT !.numjobs = iv.val]
                   [] param = K.file_size  -> [pm[n] EXCEPT !.file_size = value]
                   [] param = K.rate_iops  -> [pm[n] EXCEPT !.rate_iops = iv.val]
                   [] OTHER                -> pm[n]
    IN  IF underscore_pos = Npos THEN st
        ELSE IF ~num.ok THEN [st EXCEPT !.threw = TRUE]
        ELSE IF isInt /\ ~iv.ok THEN [st EXCEPT !.phase_map = pm, !.threw = TRUE]
        ELSE [st EXCEPT !.phase_map = MapPut(pm, n, ph)]

\* a workload-scoped key = value line
WorkloadParam(st, key, value) ==
    LET iv    == stoi(value)
        isInt == key \in {K.runtime, K.numjobs, K.iodepth, K.rate_iops}
        wl    == st.current_workload
        wl2   == CASE key = K.description -> [wl EXCEPT !.description = value]
                   [] key = K.file_size   -> [wl EXCEPT !.file_size = value]
                   [] key = K.block_size  -> [wl EXCEPT !.block_size = value]
                   [] key = K.runtime     -> [wl EXCEPT !.runtime = iv.val]
                   [] key = K.numjobs     -> [wl EXCEPT !.numjobs = iv.val]
                   [] key = K.iodepth     -> [wl EXCEPT !.iodepth = iv.val]
                   [] key = K.pattern     -> [wl EXCEPT !.pattern = value]
                   [] key = K.ioengine    -> [wl EXCEPT !.ioengine = value]
                   [] key = K.rate_iops   -> [wl EXCEPT !.rate_iops = iv.val]
                   [] OTHER               -> wl
    IN  IF isInt /\ ~iv.ok THEN [st EXCEPT !.threw = TRUE]
        ELSE [st EXCEPT !.current_workload = wl2]

\* the key of a key=value line, trimmed
LineKey(line) == erase_trailing(erase_leading(substr(line, 0, find(line, "=", 0))))
\* the value of a key=value line, trimmed
LineValue(line) ==
    erase_trailing(erase_leading(substr_from(line, find(line, "=", 0) + 1)))

IsSkipped(line) == line = <<>> \/ line[1] \in {"#", ";"}
IsHeader(line) == line # <<>> /\ line[1] = "[" /\ line[Len(line)] = "]"
IsPhaseKey(key) == substr(key, 0, 6) = K.phase_

\* one iteration of the getline loop of parse_config_file
ParseLine(st, line) ==
    IF IsSkipped(line) THEN st
    ELSE IF IsHeader(line)
    THEN [StoreSection(st) EXCEPT
             !.current_section = substr(line, 1, Len(line) - 2),
             !.current_workload = NewWorkloadConfig,
             !.phase_map = EmptyMap]
    ELSE IF find(line, "=", 0) = Npos THEN st
    ELSE IF IsPhaseKey(LineKey(line))
    THEN PhaseParam(st, LineKey(line), LineValue(line))
    ELSE WorkloadParam(st, LineKey(line), LineValue(line))

\* the getline loop of parse_config_file on the lines of text, from the
\* state st; an exception leaves it at once
RECURSIVE ParseLines(_, _)
ParseLines(st, text) ==
    IF text = <<>> \/ st.threw THEN st
    ELSE ParseLines(ParseLine(st, Head(text)), Tail(text))

\* parse_config_file() on a fresh engine: the state it leaves
ParseText(text) ==
    StoreSection(ParseLines(ParserState(NewParser, EmptyMap, EmptyMap), text))

\* ------------------------------------------------------------------------
\* Ordering of std::string keys (std::map / std::set iteration order)
\* ------------------------------------------------------------------------
\* the characters the model uses, in ASCII order
Ascii ==
    <<"\t", " ", "#", "+", "-", ".", "/",
      "0", "1", "2", "3", "4", "5", "6", "7", "8", "9", ";", "=",
      "B", "G", "K", "M", "T", "[", "]", "_",
      "a", "b", "c", "d", "e", "f", "g", "h", "i", "j", "k", "l", "m",
      "n", "o", "p", "q", "r", "s", "t", "u", "v", "w", "x", "y", "z">>

CharCode(c) == CHOOSE i \in 1..Len(Ascii) : Ascii[i] = c

\* a < b for std::string
RECURSIVE StrLess(_, _)
StrLess(a, b) ==
    IF b = <<>> THEN FALSE
    ELSE IF a = <<>> THEN TRUE
    ELSE IF a[1] # b[1] THEN CharCode(a[1]) < CharCode(b[1])
    ELSE StrLess(Tail(a), Tail(b))

\* the elements of a set of strings in iteration order
RECURSIVE InOrder(_)
InOrder(S) ==
    IF S = {} THEN <<>>
    ELSE LET m == CHOOSE x \in S : \A y \in S \ {x} : StrLess(x, y)
         IN  <<m>> \o InOrder(S \ {m})

\* std::to_string(n), n >= 0
RECURSIVE to_string(_)
to_string(n) ==
    IF n < 10 THEN <<Digits[n + 1]>>
    ELSE to_string(n \div 10) \o <<Digits[(n % 10) + 1]>>

\* ------------------------------------------------------------------------
\* Names
\* ------------------------------------------------------------------------
\* the modes of run() and the cache modes
M ==
    [dual   |-> <<"d", "u", "a", "l">>,
     all    |-> <<"a", "l", "l">>,
     both   |-> <<"b", "o", "t", "h">>,
     cached |-> <<"c", "a", "c", "h", "e", "d">>,
     direct |-> <<"d", "i", "r", "e", "c", "t">>]
\* the workloads and the clients
N ==
    [client1_steady |-> <<"c", "l", "i", "e", "n", "t", "1", "_", "s", "t", "e", "a", "d", "y">>,
     client2_bursty |-> <<"c", "l", "i", "e", "n", "t", "2", "_", "b", "u", "r", "s", "t", "y">>,
     client1        |-> <<"c", "l", "i", "e", "n", "t", "1">>,
     client2        |-> <<"c", "l", "i", "e", "n", "t", "2">>,
     w              |-> <<"w">>]
\* the parts of the file names
S ==
    [phase       |-> <<"_", "p", "h", "a", "s", "e">>,
     json        |-> <<".", "j", "s", "o", "n">>,
     iostat      |-> <<".", "i", "o", "s", "t", "a", "t">>,
     concurrent_ |-> <<"c", "o", "n", "c", "u", "r", "r", "e", "n", "t", "_">>]

\* workload_name + "_" + cache_mode
TestName(name, cache_mode) == name \o <<"_">> \o cache_mode
\* test_name + "_phase" + std::to_string(n)
PhaseName(test_name, n) == test_name \o S.phase \o to_string(n)
\* a result file of the output directory
JsonFile(name) == name \o S.json
\* path.extension() == ".json"
IsJson(f) == Len(f) >= Len(S.json) /\ SubSeq(f, Len(f) - Len(S.json) + 1, Len(f)) = S.json

\* a run that goes through both cache modes whatever the filter
BothModes(filter) == <<M.cached, M.direct>>

\* the cache modes a run goes through
CacheModes(filter) == IF filter = M.both THEN <<M.cached, M.direct>> ELSE <<filter>>

\* ------------------------------------------------------------------------
\* Test files.  A byte count is [mib, rem]: mib * 2^20 + rem bytes with
\* rem < 2^20, so that the sizes of the model stay within TLC's integers.
\* ------------------------------------------------------------------------
Kib == 1024
MibBytes == 1048576

Bytes(m, r) == [mib |-> m, rem |-> r]
IsZero(b) == b.mib = 0 /\ b.rem = 0
SizeGE(a, b) == a.mib > b.mib \/ (a.mib = b.mib /\ a.rem >= b.rem)

\* std::stoull on the unsigned decimal texts of the model
stoull(s) == stoi(s)

\* get_size_bytes(size_str); ok = FALSE when std::stoull throws
\* the switch on the unit of get_size_bytes: num is std::stoull of the text
\* before the unit
UnitBytes(unit, num) ==
    CASE unit \in {"K", "k"} -> Bytes(num \div Kib, (num % Kib) * Kib)
      [] unit \in {"M", "m"} -> Bytes(num, 0)
      [] unit \in {"G", "g"} -> Bytes(num * Kib, 0)
      [] unit \in {"T", "t"} -> Bytes(num * Kib * Kib, 0)

SizeResult(parsed, bytes) == [ok |-> parsed.ok, bytes |-> bytes]

get_size_bytes(size_str) ==
    IF size_str = <<>> THEN [ok |-> TRUE, bytes |-> Bytes(0, 0)]
    ELSE IF size_str[Len(size_str)] \in {"K", "k", "M", "m", "G", "g", "T", "t"}
    THEN SizeResult(stoull(substr(size_str, 0, Len(size_str) - 1)),
                    UnitBytes(size_str[Len(size_str)],
                              stoull(substr(size_str, 0, Len(size_str) - 1)).val))
    \* "default: return std::stoull(size_str)"
    ELSE SizeResult(stoull(size_str), Bytes(stoull(size_str).val \div MibBytes,
                                            stoull(size_str).val % MibBytes))

\* a create_test_file that does not look at the file it finds
CreateAlways(file_size, tf, expected) ==
    IF ~expected.ok THEN [status |-> "throw", tf |-> tf]
    ELSE IF IsZero(expected.bytes) THEN [status |-> "exit", tf |-> tf]
    ELSE [status |-> "created",
          tf |-> MapPut(tf, file_size, Bytes(expected.bytes.mib, 0))]

\* create_test_file(file_size, script_dir + "/test_file_" + file_size) on the
\* test files tf (file_size -> bytes on disk).  status is "reused", "created",
\* "exit" (exit(1)) or "throw" (std::stoull threw).
CreateWithSize(file_size, tf, expected) ==
    IF file_size \in DOMAIN tf /\ ~expected.ok THEN [status |-> "throw", tf |-> tf]
    ELSE IF file_size \in DOMAIN tf /\ SizeGE(tf[file_size], expected.bytes)
    THEN [status |-> "reused", tf |-> tf]
    ELSE IF ~expected.ok THEN [status |-> "throw", tf |-> tf]
    ELSE IF IsZero(expected.bytes) THEN [status |-> "exit", tf |-> tf]
    ELSE [status |-> "created",
          tf |-> MapPut(tf, file_size, Bytes(expected.bytes.mib, 0))]
create_test_file(file_size, tf) ==
    CreateWithSize(file_size, tf, get_size_bytes(file_size))

\* create_test_file for each size of a sequence, stopping at the first call
\* that does not return
RECURSIVE create_test_files(_, _)
CreateRest(sizes, r) ==
    IF r.status \in {"exit", "throw"} THEN r ELSE create_test_files(sizes, r.tf)
create_test_files(sizes, tf) ==
    IF sizes = <<>> THEN [status |-> "created", tf |-> tf]
    ELSE CreateRest(Tail(sizes), create_test_file(Head(sizes), tf))

\* the sizes for which the loop over the sizes runs dd
RECURSIVE DdRuns(_, _)
DdRuns(sizes, tf) ==
    IF sizes = <<>> THEN {}
    ELSE LET r == create_test_file(Head(sizes), tf)
         IN  IF r.status \in {"exit", "throw"} THEN {}
             ELSE (IF r.status = "created" THEN {Head(sizes)} ELSE {})
                      \cup DdRuns(Tail(sizes), r.tf)

\* the count of dd runs per size, after dd was run for each size of made
CountDd(runs, made) ==
    [s \in DOMAIN runs \cup made |->
        (IF s \in DOMAIN runs THEN runs[s] ELSE 0) + (IF s \in made THEN 1 ELSE 0)]

\* ------------------------------------------------------------------------
\* The load-generator command line built for one phase
\* ------------------------------------------------------------------------
\* "Use per-phase values with fallback to workload defaults"
PhaseFileSize(config, phase) ==
    IF phase.file_size = <<>> THEN config.file_size ELSE phase.file_size

\* the fio invocation of phase number idx (1-based position in phases);
\* an option that is not passed is <<>> (text) or 0 (rate_iops)
PhaseCmd(owner, test_name, config, idx, cache_mode) ==
    LET phase == config.phases[idx]
    IN  [owner     |-> owner,
         idx       |-> idx,
         name      |-> PhaseName(test_name, idx),
         filename  |-> PhaseFileSize(config, phase),
         size      |-> PhaseFileSize(config, phase),
         runtime   |-> phase.runtime,
         rw        |-> phase.pattern,
         bs        |-> phase.block_size,
         numjobs   |-> IF phase.numjobs > 0 THEN phase.numjobs ELSE config.numjobs,
         iodepth   |-> phase.iodepth,
         ioengine  |-> phase.ioengine,
         rate_iops |-> IF phase.rate_iops > 0 THEN phase.rate_iops ELSE config.rate_iops,
         output    |-> JsonFile(PhaseName(test_name, idx)),
         direct    |-> cache_mode = M.direct]

\* the fio invocation of a single-phase (legacy) workload
LegacyCmd(owner, test_name, config, cache_mode) ==
    [owner     |-> owner,
     idx       |-> 0,
     name      |-> test_name,
     filename  |-> config.file_size,
     size      |-> config.file_size,
     runtime   |-> config.runtime,
     rw        |-> config.pattern,
     bs        |-> config.block_size,
     numjobs   |-> config.numjobs,
     iodepth   |-> config.iodepth,
     ioengine  |-> config.ioengine,
     rate_iops |-> config.rate_iops,
     output    |-> JsonFile(test_name),
     direct    |-> cache_mode = M.direct]

\* ------------------------------------------------------------------------
\* Result files.  files maps a file name of the output directory to its
\* content; the content of an empty file is <<>>, and the content fio leaves
\* on success is the job name it was given.
\* ------------------------------------------------------------------------
NonEmptyFile(files, f) == f \in DOMAIN files /\ files[f] # <<>>

\* a scan that starts at phase 1 and goes up
FirstNonEmpty(files, test_name, n) ==
    LET ok == {k \in 1..n : NonEmptyFile(files, JsonFile(PhaseName(test_name, k)))}
    IN  IF ok = {} THEN 0 ELSE SetMin(ok)

\* "Try phases in reverse order, use first non-empty one": the phase whose
\* artifact is merged, 0 when none qualifies; the scan starts at phase n
RECURSIVE MergeScan(_, _, _)
MergeScan(files, test_name, n) ==
    IF n < 1 THEN 0
    ELSE IF NonEmptyFile(files, JsonFile(PhaseName(test_name, n))) THEN n
    ELSE MergeScan(files, test_name, n - 1)

\* the output directory after the merge step of run_workload
MergePhases(files, test_name, n) ==
    LET k == MergeScan(files, test_name, n)
    IN  IF k = 0 THEN files
        ELSE MapPut(files, JsonFile(test_name), files[JsonFile(PhaseName(test_name, k))])

\* ------------------------------------------------------------------------
\* The resource-group configuration file
\* ------------------------------------------------------------------------
\* CgroupConfig()
NewCgroupConfig == [cgroup_name |-> <<>>, settings |-> EmptyMap]

\* a key = value line of parse_cgroup_config; "Strip inline comments
\* (everything after #)"
CgroupParam(st, key, value) ==
    IF key = K.cgroup_name
    THEN [st EXCEPT !.current_cgroup.cgroup_name =
              IF find(value, "#", 0) = Npos THEN value
              ELSE erase_trailing(substr(value, 0, find(value, "#", 0)))]
    ELSE [st EXCEPT !.current_cgroup.settings =
              MapPut(@, key, IF find(value, "#", 0) = Npos THEN value
                             ELSE erase_trailing(substr(value, 0, find(value, "#", 0))))]

\* "if (!current_client.empty()) cgroups[current_client] = current_cgroup"
StoreCgroup(st) ==
    IF st.current_client = <<>> THEN st.cgroups
    ELSE MapPut(st.cgroups, st.current_client, st.current_cgroup)

\* one iteration of the getline loop of parse_cgroup_config, on the
\* trimmed line
CgroupLine(st, line) ==
    IF line = <<>> \/ line[1] = "#" THEN st
    ELSE IF line[1] = "["
    THEN [current_client |-> substr(line, 1, IF find(line, "]", 0) = Npos THEN Len(line)
                                             ELSE find(line, "]", 0) - 1),
          current_cgroup |-> NewCgroupConfig,
          cgroups |-> StoreCgroup(st)]
    ELSE IF find(line, "=", 0) = Npos THEN st
    ELSE CgroupParam(st, erase_trailing(substr(line, 0, find(line, "=", 0))),
                     erase_leading(substr_from(line, find(line, "=", 0) + 1)))

\* the getline loop of parse_cgroup_config and "cgroups[current_client] =
\* current_cgroup" after it: the cgroups member afterwards
RECURSIVE CgroupLines(_, _)
CgroupLines(st, text) ==
    IF text = <<>> THEN StoreCgroup(st)
    ELSE CgroupLines(CgroupLine(st, erase_trailing(erase_leading(Head(text)))), Tail(text))

\* ------------------------------------------------------------------------
\* State
\* ------------------------------------------------------------------------
VARIABLES
    \* what the run is given
    config_text,        \* the lines of the workload configuration file
    mode,               \* the mode argument of run()
    cache_mode_filter,  \* -m: "both", "cached" or "direct"
    host,               \* the host: which tools and files are there
    cgroup_file,        \* the resource-group configuration file
    verbose,            \* -v
    \* FairnessBenchmark members
    workloads,          \* std::map<std::string, WorkloadConfig>
    phase_nums,         \* per workload, the phase numbers behind phases[1..n]
    parsed,             \* the workloads each completed parse_config_file call left
    parser,             \* the locals of parse_config_file
    use_cgroups,
    cgroups,            \* std::map<std::string, CgroupConfig>
    \* the orchestrating process
    pc,                 \* its position in run()
    exit_code,          \* -1 while it runs
    queue,              \* run_all_workloads: the workloads still to run
    cur,                \* run_workload: workload_name
    modes,              \* the cache modes still to run, the current one first
    phase_idx,          \* phases launched so far in the current cache mode
    iostat_pid,         \* NoMonitor when fork failed
    client_pids,        \* run_concurrent_clients: std::vector<pid_t>
    \* the other processes
    monitors,           \* iostat processes: log file name -> "running" | "zombie"
    clients,            \* client processes 1 and 2
    running,            \* the load generators that are running (their command lines)
    \* the host's files
    files,              \* the output directory: file name -> content
    iostat_files,       \* the monitor logs under output_dir/iostat
    test_files,         \* test_file_<size>: size text -> bytes on disk
    groups,             \* resource groups: cgroup name -> its member processes and knob values
    summary,            \* what generate_summary counted
    \* observation
    log,                \* the messages logged
    spawned,            \* the kinds of process spawned since parse_config_file returned
    launched,           \* per process, the phases whose load generator it launched in this cache mode
    drops,              \* the calls of drop_caches since the current cache mode was entered
    attempts,           \* the add_pid_to_cgroup commands run in this cache mode: <<side, pid>>
    dd_runs,            \* per size text, how many times dd was run for its test file
    cmds,               \* the commands of the last call of setup_all_cgroups or cleanup_cgroups
    fork_failures,      \* fork() calls that returned -1
    fio_failures        \* load generators that left no non-empty result

inputVars == <<config_text, mode, cache_mode_filter, host, cgroup_file, verbose>>
parseVars == <<workloads, phase_nums, parsed, parser>>
cfgVars   == <<use_cgroups, cgroups>>
ctlVars   == <<pc, exit_code, queue, cur, modes, phase_idx, iostat_pid, client_pids>>
procVars  == <<monitors, clients, running>>
hostVars  == <<files, iostat_files, test_files, groups, summary>>
obsVars   == <<log, spawned, launched, drops, attempts, dd_runs, cmds, fork_failures,
               fio_failures>>

vars == <<inputVars, parseVars, cfgVars, ctlVars, procVars, hostVars, obsVars>>

\* process identities
Main == 0
NoPid == -1
NoMonitor == <<>>
ClientIds == {1, 2}
\* the workload a client process runs, and the name it writes its results under
ClientWorkload(i) == IF i = 1 THEN N.client1_steady ELSE N.client2_bursty
ClientName(i) == IF i = 1 THEN N.client1 ELSE N.client2

NoClient == [pc |-> "none", phase_idx |-> 0, status |-> 0]

\* ------------------------------------------------------------------------
\* Configuration lines and texts
\* ------------------------------------------------------------------------
\* the values the lines assign
V ==
    [size_1G |-> <<"1", "G">>,
     size_2M |-> <<"2", "M">>,
     libaio  |-> <<"l", "i", "b", "a", "i", "o">>,
     sync    |-> <<"s", "y", "n", "c">>,
     read    |-> <<"r", "e", "a", "d">>,
     write   |-> <<"w", "r", "i", "t", "e">>]

\* the lines the configuration texts are made of
L ==
    [blank        |-> <<>>,
     comment      |-> <<"#", " ", "w">>,
     sec_w        |-> <<"[", "w", "]">>,
     sec_v        |-> <<"[", "v", "]">>,
     sec_client1  |-> <<"[">> \o N.client1_steady \o <<"]">>,
     sec_client2  |-> <<"[">> \o N.client2_bursty \o <<"]">>,
     file_size    |-> K.file_size \o <<"=">> \o V.size_1G,
     numjobs      |-> K.numjobs \o <<" ", "=", " ", "2">>,
     rate_iops    |-> K.rate_iops \o <<"=", "9">>,
     ioengine     |-> K.ioengine \o <<"=">> \o V.libaio,
     pattern      |-> K.pattern \o <<"=">> \o V.read,
     p1_runtime   |-> K.phase_ \o <<"1", "_">> \o K.runtime \o <<"=", "5">>,
     p1_pattern   |-> K.phase_ \o <<"1", "_">> \o K.pattern \o <<"=">> \o V.read,
     p01_pattern  |-> K.phase_ \o <<"0", "1", "_">> \o K.pattern \o <<"=">> \o V.read,
     p1_file_size |-> K.phase_ \o <<"1", "_">> \o K.file_size \o <<"=">> \o V.size_2M,
     p2_runtime   |-> K.phase_ \o <<"2", "_">> \o K.runtime \o <<"=", "7">>,
     p2_numjobs   |-> K.phase_ \o <<"2", "_">> \o K.numjobs \o <<"=", "4">>,
     p2_ioengine  |-> K.phase_ \o <<"2", "_">> \o K.ioengine \o <<"=">> \o V.sync,
     p3_pattern   |-> K.phase_ \o <<"3", "_">> \o K.pattern \o <<"=">> \o V.write,
     p_bad        |-> K.phase_ \o <<"x", "_">> \o K.runtime \o <<"=", "5">>,
     p2_unknown   |-> K.phase_ \o <<"2", "_", "z", "=", "1">>,
     unknown      |-> <<"z", " ", "=", " ", "1">>,
     p2_size0     |-> K.phase_ \o <<"2", "_">> \o K.file_size \o <<"=", "0">>,
     commented    |-> K.pattern \o <<" ", "=", " ">> \o V.read \o <<" ", "#", "c">>]

\* the lines the parser specification builds its texts from
LinePool ==
    {L.comment, L.sec_v, L.file_size, L.numjobs,
     L.p1_runtime, L.p01_pattern, L.p2_runtime, L.p3_pattern, L.p_bad,
     L.p2_unknown, L.unknown, L.commented}

RECURSIVE TextsOfLen(_)
TextsOfLen(n) ==
    IF n = 0 THEN {<<>>}
    ELSE {Append(t, l) : t \in TextsOfLen(n - 1), l \in LinePool}

\* the configuration texts of a run.
\* dual: the two clients of dual mode, client1_steady with two phases
\*   (declared out of order), client2_bursty with one phase that has its own
\*   file size
\* one_client: client2_bursty is missing; w is a single-phase workload
\* multi: a workload of three phases and a single-phase workload
\* no_size: v is run first in "all" mode; w has no file_size
\* empty: a file with no section
\* bad_phase: the second phase of w has a file size of its own, which is 0
\* writers: two clients on one file size; client1_steady has the phases 2
\*   and 3, of which phase 3 writes
\* legacy_client: client1_steady is a single-phase workload
T ==
    [dual       |-> <<L.sec_client1, L.file_size, L.ioengine, L.numjobs, L.rate_iops,
                      L.p2_runtime, L.p2_ioengine, L.p1_runtime, L.p1_pattern,
                      L.sec_client2, L.file_size, L.p1_runtime, L.p1_file_size>>,
     one_client |-> <<L.sec_client1, L.file_size, L.p1_runtime,
                      L.sec_w, L.file_size, L.pattern>>,
     multi      |-> <<L.comment, L.sec_w, L.file_size, L.ioengine, L.numjobs, L.rate_iops,
                      L.p3_pattern, L.p1_runtime, L.p2_numjobs,
                      L.sec_v, L.file_size, L.pattern>>,
     no_size    |-> <<L.sec_v, L.file_size, L.pattern, L.sec_w, L.p1_runtime, L.p2_runtime>>,
     empty      |-> <<L.comment, L.blank>>,
     bad_phase  |-> <<L.sec_w, L.file_size, L.p1_runtime, L.p2_size0>>,
     writers    |-> <<L.sec_client1, L.file_size, L.p2_runtime, L.p3_pattern,
                      L.sec_client2, L.file_size, L.p1_runtime>>,
     legacy_client |-> <<L.sec_client1, L.file_size, L.pattern,
                         L.sec_client2, L.file_size, L.p1_runtime>>]

\* the knobs of the resource-group configuration
Knob == [weight |-> <<"i", "o", ".", "w", "e", "i", "g", "h", "t">>,
         memory |-> <<"m", "e", "m", "o", "r", "y", ".", "m", "a", "x">>]

\* a host on which every tool and file is there; sudo: the sudo commands on
\* the group tree succeed; knob_files: the control files a group has
GoodHost ==
    [fio |-> TRUE, config |-> TRUE, readable |-> TRUE, iostat |-> TRUE,
     sudo |-> TRUE, knob_files |-> {Knob.weight, Knob.memory}]

\* the resource-group configuration, when the file is there
\* the groups: of the two clients, the one cleanup_cgroups removes besides
\* the configured ones, and one the engine has no configuration for
G ==
    [client1 |-> <<"g", "1">>,
     client2 |-> <<"g", "2">>,
     clients |-> <<"c", "l", "i", "e", "n", "t", "s">>,
     other   |-> <<"o", "t", "h", "e", "r">>]

\* the resource-group configuration files, by the value of cgroup_file
\* present: a group with two knobs and a group with one
\* nested, deep: a group two and three levels below the base node
\* no_name: a section without the cgroup_name key
\* no_knobs: a group without a knob, after a comment line
F ==
    [present  |-> <<<<"[">> \o N.client1_steady \o <<"]">>,
                    K.cgroup_name \o <<"=">> \o G.client1,
                    Knob.weight \o <<"=", "1", "0", "0">>,
                    Knob.memory \o <<" ", "=", " ", "1", "G", " ", "#", "c">>,
                    <<"[">> \o N.client2_bursty \o <<"]">>,
                    K.cgroup_name \o <<"=">> \o G.client2,
                    Knob.weight \o <<"=", "5", "0">>>>,
     nested   |-> <<<<"[">> \o N.client1_steady \o <<"]">>,
                    K.cgroup_name \o <<"=">> \o G.clients \o <<"/">> \o G.client1,
                    Knob.weight \o <<"=", "1", "0", "0">>>>,
     deep     |-> <<<<"[">> \o N.client1_steady \o <<"]">>,
                    K.cgroup_name \o <<"=">> \o G.other \o <<"/">> \o G.client2
                        \o <<"/">> \o G.client1,
                    Knob.weight \o <<"=", "1", "0", "0">>,
                    Knob.memory \o <<"=", "1", "G">>>>,
     no_name  |-> <<<<"[">> \o N.client1_steady \o <<"]">>,
                    Knob.weight \o <<"=", "1", "0", "0">>>>,
     no_knobs |-> <<<<"#">>,
                    <<"[">> \o N.client2_bursty \o <<"]">>,
                    K.cgroup_name \o <<"=">> \o G.client2>>]

\* bool parse_cgroup_config(): the cgroups member it leaves for the file
CgroupFileContent == CgroupLines([current_client |-> <<>>, current_cgroup |-> NewCgroupConfig,
                                  cgroups |-> EmptyMap], F[cgroup_file])

\* a process of the host that is not the engine's
ForeignPid == 99

\* a group as mkdir makes it: no member, every knob at its default
NewGroup == [members |-> {}, knobs |-> EmptyMap]

\* what an earlier run, or somebody else, may have left of a group
GroupLeftovers ==
    {NewGroup,
     [members |-> {ForeignPid}, knobs |-> (Knob.memory :> <<"2", "G">>)],
     [members |-> {}, knobs |-> (Knob.weight :> <<"7">>) @@ (Knob.memory :> <<"2", "G">>)]}

\* the group tree an earlier run left: the group of client 1 with a member
\* and a knob, and a group that is not the engine's
StaleGroups ==
    (G.client1 :> [members |-> {ForeignPid}, knobs |-> (Knob.memory :> <<"2", "G">>)])
    @@ (G.other :> [members |-> {ForeignPid}, knobs |-> (Knob.weight :> <<"7">>)])

\* what an earlier run left in the output directory
StaleOutput ==
    (JsonFile(TestName(N.w, M.cached)) :> <<"s", "t", "a", "l", "e">>)
    @@ (JsonFile(<<"o", "l", "d">>) :> <<"s", "t", "a", "l", "e">>)

\* ------------------------------------------------------------------------
\* Initial states
\* ------------------------------------------------------------------------
InitEngine ==
    /\ workloads = EmptyMap
    /\ phase_nums = EmptyMap
    /\ parsed = <<>>
    /\ parser = NewParser
    /\ cgroups = EmptyMap
    /\ exit_code = -1
    /\ queue = <<>>
    /\ cur = <<>>
    /\ modes = <<>>
    /\ phase_idx = 0
    /\ iostat_pid = NoMonitor
    /\ client_pids = <<>>
    /\ monitors = EmptyMap
    /\ clients = [i \in ClientIds |-> NoClient]
    /\ running = {}
    /\ files = StaleOutput
    /\ iostat_files = {}
    /\ summary = [json_files |-> 0, iostat_files |-> 0, written |-> FALSE]
    /\ log = {}
    /\ spawned = {}
    /\ launched = [p \in {Main} \cup ClientIds |-> <<>>]
    /\ drops = 0
    /\ attempts = {}
    /\ dd_runs = EmptyMap
    /\ cmds = <<>>
    /\ fork_failures = 0
    /\ fio_failures = 0

\* a run of the engine: main() has parsed its arguments and calls run(mode).
\* The host on which sudo fails is tried in dual mode, without and with -v.
Init ==
    /\ config_text \in {T.dual, T.one_client, T.multi, T.no_size, T.empty, T.bad_phase}
    /\ mode \in {M.dual, M.all, N.w}
    /\ cache_mode_filter \in {M.both, M.cached, M.direct}
    /\ host \in {GoodHost,
                 [GoodHost EXCEPT !.fio = FALSE],
                 [GoodHost EXCEPT !.config = FALSE],
                 [GoodHost EXCEPT !.readable = FALSE],
                 [GoodHost EXCEPT !.iostat = FALSE],
                 [GoodHost EXCEPT !.sudo = FALSE]}
    /\ ~host.sudo => mode = M.dual
    /\ cgroup_file \in {"absent", "present"}
    /\ use_cgroups \in BOOLEAN
    /\ verbose \in (IF mode = M.dual /\ ~host.sudo THEN BOOLEAN ELSE {FALSE})
    /\ groups = StaleGroups
    /\ test_files = EmptyMap
    /\ pc = "check_dependencies"
    /\ InitEngine

\* the parser on its own: an engine on which parse_config_file is called
\* up to MaxParses times on one text
InitParse ==
    \* every text that opens with a section header and has up to MaxLines
    \* lines after it
    /\ config_text \in UNION {{<<h>> \o t : h \in {L.sec_w, L.sec_v}, t \in TextsOfLen(n)}
                                : n \in 0..MaxLines}
    /\ mode = M.all
    /\ cache_mode_filter = M.both
    /\ host = GoodHost
    /\ cgroup_file = "absent"
    /\ use_cgroups = FALSE
    /\ verbose = FALSE
    /\ groups = EmptyMap
    /\ test_files = EmptyMap
    /\ pc = "parse_config_file"
    /\ InitEngine

\* the resource-group controller on its own: a run in dual mode, on any of
\* the group trees and hosts, up to the choice of the mode
InitGroups ==
    /\ config_text = T.dual
    /\ mode = M.dual
    /\ cache_mode_filter = M.both
    /\ host \in {GoodHost,
                 [GoodHost EXCEPT !.sudo = FALSE],
                 [GoodHost EXCEPT !.knob_files = {Knob.weight}],
                 [GoodHost EXCEPT !.knob_files = {}]}
    /\ cgroup_file \in {"absent", "present"}
    /\ use_cgroups \in BOOLEAN
    /\ verbose = FALSE
    /\ groups \in
          {EmptyMap, StaleGroups}
          \cup {(G.client1 :> a) @@ (G.client2 :> b) : a, b \in GroupLeftovers}
          \cup {(G.client2 :> a) @@ (G.clients :> b) @@ (G.other :> a) :
                    a, b \in GroupLeftovers}
    /\ test_files = EmptyMap
    /\ pc = "check_dependencies"
    /\ InitEngine

\* the resource-group controller on every configuration file: a run in
\* dual mode up to the end of setup_all_cgroups, on a tree with no group,
\* with the groups an earlier run left, or with a group below "clients"
InitControl ==
    /\ config_text = T.dual
    /\ mode = M.dual
    /\ cache_mode_filter = M.both
    /\ host \in {GoodHost,
                 [GoodHost EXCEPT !.sudo = FALSE],
                 [GoodHost EXCEPT !.knob_files = {Knob.weight}],
                 [GoodHost EXCEPT !.knob_files = {}]}
    /\ cgroup_file \in {"absent"} \cup DOMAIN F
    /\ use_cgroups = TRUE
    /\ verbose = FALSE
    /\ groups \in
          {EmptyMap, StaleGroups,
           (G.clients :> NewGroup)
           @@ (G.clients \o <<"/">> \o G.client1
                  :> [members |-> {ForeignPid}, knobs |-> (Knob.memory :> <<"2", "G">>)])}
    /\ test_files = EmptyMap
    /\ pc = "check_dependencies"
    /\ InitEngine

\* the size expressions create_test_file is tried on: a number up to MaxNum,
\* or one that is not a multiple of 1 MiB in kilobytes, with a unit or none,
\* and texts that are no size
MaxNum == 3
SizeNums == (0..MaxNum) \cup {3 * 512}
SizeUnits == <<"K", "M", "G", "T">>
SizeText(n, k) == to_string(n) \o (IF k = 0 THEN <<>> ELSE <<SizeUnits[k]>>)
BadSizeTexts ==
    {<<"a", "b", "c">>, <<"G">>, <<"x", "G">>, <<"1", "X">>, <<"2", "x", "M">>,
     <<"1", ".", "5", "G">>}

\* the configuration texts that use the size expression s: the workload w
\* of that size; the workloads v and w, both of that size; and w whose
\* phase has that size for itself
FileTexts(s) ==
    {<<L.sec_w, K.file_size \o <<"=">> \o s, L.pattern>>,
     <<L.sec_v, K.file_size \o <<"=">> \o s, L.pattern,
       L.sec_w, K.file_size \o <<"=">> \o s, L.pattern>>,
     <<L.sec_w, L.file_size, K.phase_ \o <<"1", "_">> \o K.file_size \o <<"=">> \o s>>}

\* the test file provisioner on its own: a run of the workload w, or of
\* all workloads, of a configuration that uses any of the size expressions,
\* with no test file or a test file of any of the sizes at the path
InitFiles ==
    /\ \E s \in {SizeText(n, k) : n \in SizeNums, k \in 0..Len(SizeUnits)}
                  \cup BadSizeTexts \cup {<<>>, <<"1", "g">>} :
          /\ config_text \in FileTexts(s)
          /\ test_files \in
                {EmptyMap}
                \cup {(s :> b) : b \in {Bytes(0, 0), Bytes(0, 512), Bytes(0, 2 * Kib),
                                        Bytes(1, 0), Bytes(1, 512 * Kib),
                                        Bytes(2 * Kib, 0), Bytes(4 * Kib * Kib, 0)}}
    /\ mode = (IF L.sec_v \in {config_text[i] : i \in DOMAIN config_text} THEN M.all ELSE N.w)
    /\ cache_mode_filter = M.both
    /\ host = GoodHost
    /\ cgroup_file = "absent"
    /\ use_cgroups = TRUE
    /\ verbose = FALSE
    /\ groups = EmptyMap
    /\ pc = "check_dependencies"
    /\ InitEngine

\* the phase driver on its own: a run in dual or "all" mode, in the cached
\* mode, of the configurations whose clients share a file, write, have phase
\* numbers that do not start at 1, or have no phase
InitPhases ==
    /\ config_text \in {T.writers, T.legacy_client}
    /\ mode \in {M.dual, M.all}
    /\ cache_mode_filter = M.cached
    /\ host \in {GoodHost, [GoodHost EXCEPT !.iostat = FALSE]}
    /\ cgroup_file \in {"absent", "present"}
    /\ use_cgroups = TRUE
    /\ verbose = FALSE
    /\ groups = EmptyMap
    /\ test_files = EmptyMap
    /\ pc = "check_dependencies"
    /\ InitEngine

\* the engine when run() has parsed both configurations and setup() has
\* returned, for the configurations of the phase driver
InitRun ==
    /\ config_text \in {T.writers, T.legacy_client}
    /\ mode \in {M.dual, M.all}
    /\ cache_mode_filter = M.cached
    /\ host \in {GoodHost, [GoodHost EXCEPT !.iostat = FALSE]}
    /\ cgroup_file \in {"absent", "present"}
    /\ verbose = FALSE
    /\ \E st \in {ParseText(config_text)} :
          /\ workloads = st.workloads
          /\ phase_nums = st.nums
          /\ parsed = <<st.workloads>>
          /\ parser = [line_no |-> Len(config_text),
                       current_section |-> st.current_section,
                       current_workload |-> st.current_workload,
                       phase_map |-> st.phase_map]
    /\ use_cgroups = (cgroup_file = "present")
    /\ cgroups = (IF cgroup_file = "present" THEN CgroupFileContent ELSE EmptyMap)
    /\ pc = "setup_all_cgroups"
    /\ exit_code = -1
    /\ queue = <<>>
    /\ cur = <<>>
    /\ modes = <<>>
    /\ phase_idx = 0
    /\ iostat_pid = NoMonitor
    /\ client_pids = <<>>
    /\ monitors = EmptyMap
    /\ clients = [i \in ClientIds |-> NoClient]
    /\ running = {}
    /\ files = EmptyMap
    /\ iostat_files = {}
    /\ test_files = EmptyMap
    /\ groups = EmptyMap
    /\ summary = [json_files |-> 0, iostat_files |-> 0, written |-> FALSE]
    /\ log = {}
    /\ spawned = {}
    /\ launched = [p \in {Main} \cup ClientIds |-> <<>>]
    /\ drops = 0
    /\ attempts = {}
    /\ dd_runs = EmptyMap
    /\ cmds = <<>>
    /\ fork_failures = 0
    /\ fio_failures = 0

\* ------------------------------------------------------------------------
\* Building blocks of the actions
\* ------------------------------------------------------------------------
\* run() returns code
Return(code) == pc' = "returned" /\ exit_code' = code
\* exit(1) inside create_test_file
Exit1 == pc' = "exited" /\ exit_code' = 1
\* an exception nobody catches: std::terminate, the process is aborted (134)
Terminate == pc' = "terminated" /\ exit_code' = 134

\* a run_system that starts the command and does not wait for it
run_system_nowait(waiting, next) == next

\* where a process stands after run_system(cmd): system() returns only when
\* the command has exited, so the caller waits (at waiting) before it goes on
\* (to next)
run_system(waiting, next) == waiting

\* fork() may fail up to MaxForkFailures times in one run
MaxForkFailures == 1
ForkOutcomes == IF fork_failures < MaxForkFailures THEN {TRUE, FALSE} ELSE {TRUE}
CountFork(ok) == fork_failures' = IF ok THEN fork_failures ELSE fork_failures + 1

\* a load generator may leave no result, or an empty one, up to MaxFioFailures
\* times in one run
MaxFioFailures == 2

\* the load generators a process has running
RunningOf(p) == {c \in running : c.owner = p}

\* the set of configured group names
GroupNames == {cgroups[c].cgroup_name : c \in DOMAIN cgroups}

\* a cleanup_cgroups whose rmdir fails on a group that had members when the
\* kill was sent
cleanup_cgroups_busy(g) ==
    IF ~host.sudo THEN g
    ELSE [n \in {m \in DOMAIN g : m \notin GroupNames \cup {G.clients} \/ g[m].members # {}}
            |-> IF n \in GroupNames \cup {G.clients} THEN [g[n] EXCEPT !.members = {}] ELSE g[n]]

\* the nodes above the node n, below the base node
Ancestors(n) == {substr(n, 0, i - 1) : i \in {j \in 1..Len(n) : n[j] = "/"}}

\* the configured group names, in the order of the cgroups map
NamesInOrder ==
    [i \in 1..Cardinality(DOMAIN cgroups) |-> cgroups[InOrder(DOMAIN cgroups)[i]].cgroup_name]

\* kill -9 of the members of each node of names and rmdir of the node, one
\* after the other: rmdir fails on a node that has a node below it, and on
\* the base node, which has the empty name and is no node of g
RECURSIVE RemoveGroups(_, _)
RemoveGroups(g, names) ==
    IF names = <<>> THEN g
    ELSE IF Head(names) \notin DOMAIN g THEN RemoveGroups(g, Tail(names))
    ELSE IF \E m \in DOMAIN g : Head(names) \in Ancestors(m)
    THEN RemoveGroups([g EXCEPT ![Head(names)].members = {}], Tail(names))
    ELSE RemoveGroups([m \in (DOMAIN g) \ {Head(names)} |-> g[m]], Tail(names))

\* cleanup_cgroups(): per configured group, and then for "clients", kill -9
\* of the members and rmdir of the group; without sudo both commands fail
cleanup_cgroups(g) ==
    IF ~host.sudo THEN g
    ELSE RemoveGroups(g, Append(NamesInOrder, G.clients))

\* the commands of a cleanup that removes each group before it kills the
\* members of the group
RECURSIVE RemoveAndKill(_)
RemoveAndKill(names) ==
    IF names = <<>> THEN <<>>
    ELSE <<<<"rmdir", Head(names), <<>>>>, <<"kill", Head(names), <<>>>>>>
            \o RemoveAndKill(Tail(names))

\* the commands cleanup_cgroups() runs, each with the node it names
RECURSIVE KillAndRemove(_)
KillAndRemove(names) ==
    IF names = <<>> THEN <<>>
    ELSE <<<<"kill", Head(names), <<>>>>, <<"rmdir", Head(names), <<>>>>>>
            \o KillAndRemove(Tail(names))
CleanupCommands ==
    IF ~use_cgroups THEN <<>> ELSE KillAndRemove(Append(NamesInOrder, G.clients))

\* "Apply cgroup settings": a setting whose control file exists is written
ApplySettings(knobs, settings) ==
    [k \in DOMAIN knobs \cup (DOMAIN settings \cap host.knob_files)
        |-> IF k \in DOMAIN settings \cap host.knob_files THEN settings[k] ELSE knobs[k]]

\* the group tree after mkdir -p of the group n: n and the nodes above it
MakeGroup(g, n) ==
    [m \in DOMAIN g \cup ((Ancestors(n) \cup {n}) \ {<<>>})
        |-> IF m \in DOMAIN g THEN g[m] ELSE NewGroup]

\* the group n of the tree g with the settings applied; the knobs of the
\* base node are not part of g
ConfigureGroup(g, n, settings) ==
    IF n \notin DOMAIN g THEN g
    ELSE [g EXCEPT ![n] = [members |-> g[n].members,
                           knobs |-> ApplySettings(g[n].knobs, settings)]]

\* setup_cgroup(client_name): the group tree afterwards
setup_cgroup(g, client_name) ==
    IF ~use_cgroups \/ client_name \notin DOMAIN cgroups THEN g
    ELSE IF ~host.sudo THEN g
    ELSE ConfigureGroup(MakeGroup(g, cgroups[client_name].cgroup_name),
                        cgroups[client_name].cgroup_name,
                        cgroups[client_name].settings)

\* "Apply cgroup settings": the commands and the two counters after the
\* loop over the settings keys; missing_fails: whether a control file that
\* is not there adds to fail_count (it does at 1151, it does not at 198)
RECURSIVE ApplyLoop(_, _, _, _)
ApplyLoop(acc, n, keys, missing_fails) ==
    IF keys = <<>> THEN acc
    ELSE IF Head(keys) \notin host.knob_files
    THEN ApplyLoop([cmds |-> Append(acc.cmds, <<"test", n, Head(keys)>>),
                    success_count |-> acc.success_count,
                    fail_count |-> acc.fail_count + (IF missing_fails THEN 1 ELSE 0)],
                   n, Tail(keys), missing_fails)
    ELSE ApplyLoop([cmds |-> acc.cmds \o <<<<"test", n, Head(keys)>>, <<"tee", n, Head(keys)>>>>,
                    success_count |-> acc.success_count + 1,
                    fail_count |-> acc.fail_count],
                   n, Tail(keys), missing_fails)

\* the end of setup_cgroup: the message it logs, which holds the counts
\* only when a setting was applied
SetupDone(n, acc) ==
    [cmds |-> acc.cmds \o <<<<"counts", n, <<acc.success_count, acc.fail_count>>>>>>,
     log |-> {IF acc.success_count > 0
              THEN [kind |-> "cgroup_setup", name |-> n, applied |-> acc.success_count,
                    failed |-> acc.fail_count]
              ELSE [kind |-> "cgroup_none_applied", name |-> n]}]

\* setup_cgroup(client_name): its commands, its two counters when the
\* settings were applied, and its message. nested: whether the variant
\* counts a missing file and does "Enable controllers in all parent
\* directories up to root": on the base node and, "if cgroup_name contains
\* '/'", on the node of its first segment
SetupRun(client_name, nested) ==
    IF ~use_cgroups THEN [cmds |-> <<>>, log |-> {}]
    ELSE IF client_name \notin DOMAIN cgroups
    THEN [cmds |-> <<>>, log |-> {[kind |-> "no_cgroup_config", name |-> client_name]}]
    ELSE IF ~host.sudo
    THEN [cmds |-> <<<<"mkdir", cgroups[client_name].cgroup_name, <<>>>>>>,
          log |-> {[kind |-> "cgroup_mkdir_failed", name |-> cgroups[client_name].cgroup_name]}]
    ELSE LET n == cgroups[client_name].cgroup_name
         IN  SetupDone(n,
                 ApplyLoop([cmds |-> <<<<"mkdir", n, <<>>>>, <<"enable", <<>>, <<>>>>>>
                                     \o (IF nested /\ find(n, "/", 0) # Npos
                                         THEN <<<<"mkdir", substr(n, 0, find(n, "/", 0)), <<>>>>,
                                                <<"enable", substr(n, 0, find(n, "/", 0)), <<>>>>>>
                                         ELSE <<>>),
                            success_count |-> 0, fail_count |-> 0],
                           n, InOrder(DOMAIN cgroups[client_name].settings), nested))

\* what setup_cgroup leaves for each of the clients names, one after the
\* other
RECURSIVE SetupRuns(_, _)
SetupRuns(names, nested) ==
    IF names = <<>> THEN [cmds |-> <<>>, log |-> {}]
    ELSE [cmds |-> SetupRun(Head(names), nested).cmds \o SetupRuns(Tail(names), nested).cmds,
          log |-> SetupRun(Head(names), nested).log \cup SetupRuns(Tail(names), nested).log]

\* "Setup all configured cgroups": setup_cgroup for every client, in the
\* order of the map
RECURSIVE setup_cgroups_from(_, _)
setup_cgroups_from(g, names) ==
    IF names = <<>> THEN g
    ELSE setup_cgroups_from(setup_cgroup(g, Head(names)), Tail(names))
setup_cgroups(g) == setup_cgroups_from(g, InOrder(DOMAIN cgroups))

\* whether the command of add_pid_to_cgroup succeeds: the group is there and
\* pid is a process of the host
AttachOk(g, client_name, pid) ==
    /\ host.sudo
    /\ cgroups[client_name].cgroup_name \in DOMAIN g \cup {<<>>}
    /\ pid # NoPid
    /\ clients[pid].pc \notin {"none", "reaped"}

\* the group tree after pid was written to cgroup.procs of the group n: a
\* process is a member of one group, and a process that has exited is not
\* moved
AddMember(g, n, pid) ==
    IF clients[pid].pc = "zombie" THEN g
    ELSE [m \in DOMAIN g |-> [members |-> IF m = n THEN g[m].members \cup {pid}
                                          ELSE g[m].members \ {pid},
                              knobs |-> g[m].knobs]]

\* an add_pid_to_cgroup that does not test use_cgroups
add_pid_unguarded(g, client_name, pid) ==
    IF client_name \notin DOMAIN cgroups THEN g
    ELSE IF AttachOk(g, client_name, pid)
    THEN AddMember(g, cgroups[client_name].cgroup_name, pid)
    ELSE g

\* add_pid_to_cgroup(client_name, pid): the groups afterwards
add_pid_to_cgroup(g, client_name, pid) ==
    IF ~use_cgroups \/ client_name \notin DOMAIN cgroups THEN g
    ELSE IF AttachOk(g, client_name, pid)
    THEN AddMember(g, cgroups[client_name].cgroup_name, pid)
    ELSE g
\* add_pid_to_cgroup(client_name, pid): the log afterwards; the warning is
\* written "if (verbose)"
AttachLog(g, client_name, pid) ==
    IF use_cgroups /\ client_name \in DOMAIN cgroups
       /\ ~AttachOk(g, client_name, pid) /\ verbose
    THEN log \cup {[kind |-> "attach_failed", name |-> cgroups[client_name].cgroup_name]}
    ELSE log
\* whether add_pid_to_cgroup runs a command
AttachSpawns(client_name) == use_cgroups /\ client_name \in DOMAIN cgroups
\* the commands of add_pid_to_cgroup run so far, after the call made by
\* side ("child" or "parent") for pid
AttachAttempts(client_name, side, pid) ==
    IF AttachSpawns(client_name) THEN attempts \cup {<<side, pid>>} ELSE attempts

\* ------------------------------------------------------------------------
\* run(): setup
\* ------------------------------------------------------------------------
\* bool check_dependencies()
check_dependencies ==
    /\ pc = "check_dependencies"
    /\ IF host.fio /\ host.config
       THEN pc' = "parse_config_file" /\ UNCHANGED exit_code
       ELSE Return(1)
    /\ UNCHANGED <<queue, cur, modes, phase_idx, iostat_pid, client_pids>>
    /\ UNCHANGED <<inputVars, parseVars, cfgVars, procVars, hostVars, obsVars>>

\* bool parse_config_file(): the file is opened and the locals are declared
parse_open ==
    /\ pc = "parse_config_file"
    /\ IF host.readable
       THEN pc' = "parse_loop" /\ parser' = NewParser /\ UNCHANGED exit_code
       ELSE Return(1) /\ UNCHANGED parser
    /\ UNCHANGED <<workloads, phase_nums, parsed>>
    /\ UNCHANGED <<queue, cur, modes, phase_idx, iostat_pid, client_pids>>
    /\ UNCHANGED <<inputVars, cfgVars, procVars, hostVars, obsVars>>

\* one iteration of "while (std::getline(file, line))"; an exception of
\* std::stoi is not caught anywhere
parse_line ==
    /\ pc = "parse_loop"
    /\ parser.line_no < Len(config_text)
    /\ \E st \in {ParseLine(ParserState(parser, workloads, phase_nums),
                             config_text[parser.line_no + 1])} :
           /\ parser' = [line_no |-> parser.line_no + 1,
                         current_section |-> st.current_section,
                         current_workload |-> st.current_workload,
                         phase_map |-> st.phase_map]
           /\ workloads' = st.workloads
           /\ phase_nums' = st.nums
           /\ IF st.threw THEN Terminate ELSE UNCHANGED <<pc, exit_code>>
    /\ UNCHANGED parsed
    /\ UNCHANGED <<queue, cur, modes, phase_idx, iostat_pid, client_pids>>
    /\ UNCHANGED <<inputVars, cfgVars, procVars, hostVars, obsVars>>

\* a parse_config_file that returns true whatever it has parsed
ParsedAnything(w) == TRUE

\* "return !workloads.empty()"
ParsedSome(w) == DOMAIN w # {}

\* "Add the last workload" and return !workloads.empty()
parse_finish ==
    /\ pc = "parse_loop"
    /\ parser.line_no >= Len(config_text)
    /\ \E st \in {StoreSection(ParserState(parser, workloads, phase_nums))} :
           /\ parser' = [parser EXCEPT !.current_workload = st.current_workload]
           /\ workloads' = st.workloads
           /\ phase_nums' = st.nums
           /\ IF ParsedSome(st.workloads)
              THEN pc' = "parse_cgroup_config" /\ UNCHANGED exit_code
              ELSE Return(1)
           /\ parsed' = Append(parsed, st.workloads)
    /\ UNCHANGED <<queue, cur, modes, phase_idx, iostat_pid, client_pids>>
    /\ UNCHANGED <<inputVars, cfgVars, procVars, hostVars, obsVars>>

\* parse_config_file() is called again on the same engine
parse_again ==
    /\ pc = "parse_cgroup_config"
    /\ Len(parsed) < MaxParses
    /\ pc' = "parse_config_file"
    /\ UNCHANGED <<exit_code, queue, cur, modes, phase_idx, iostat_pid, client_pids>>
    /\ UNCHANGED <<inputVars, parseVars, cfgVars, procVars, hostVars, obsVars>>

\* bool parse_cgroup_config()
parse_cgroup_config ==
    /\ pc = "parse_cgroup_config"
    /\ IF cgroup_file = "absent"
       THEN use_cgroups' = FALSE /\ UNCHANGED cgroups
       ELSE cgroups' = CgroupFileContent /\ UNCHANGED use_cgroups
    /\ pc' = "setup"
    /\ UNCHANGED <<exit_code, queue, cur, modes, phase_idx, iostat_pid, client_pids>>
    /\ UNCHANGED <<inputVars, parseVars, procVars, hostVars, obsVars>>

\* a setup() that keeps the output directory it finds
KeepFiles(f) == f

\* what setup() leaves in the output directory
SetupFiles(f) == EmptyMap

\* void setup(): the output directory is removed and created again
setup ==
    /\ pc = "setup"
    /\ files' = SetupFiles(files)
    /\ iostat_files' = {}
    /\ pc' = "setup_all_cgroups"
    /\ UNCHANGED <<exit_code, queue, cur, modes, phase_idx, iostat_pid, client_pids>>
    /\ UNCHANGED <<test_files, groups, summary>>
    /\ UNCHANGED <<inputVars, parseVars, cfgVars, procVars, obsVars>>

\* void setup_all_cgroups(): cleanup_cgroups(), then setup_cgroup per client
setup_all_cgroups ==
    /\ pc = "setup_all_cgroups"
    /\ IF use_cgroups
       THEN /\ groups' = setup_cgroups(cleanup_cgroups(groups))
            /\ spawned' = spawned \cup {"cgroup"}
            /\ cmds' = CleanupCommands \o SetupRuns(InOrder(DOMAIN cgroups), TRUE).cmds
            /\ log' = log \cup SetupRuns(InOrder(DOMAIN cgroups), TRUE).log
       ELSE UNCHANGED <<groups, spawned, cmds, log>>
    /\ pc' = "dispatch"
    /\ UNCHANGED <<exit_code, queue, cur, modes, phase_idx, iostat_pid, client_pids>>
    /\ UNCHANGED <<files, iostat_files, test_files, summary>>
    /\ UNCHANGED <<launched, drops, attempts, dd_runs, fork_failures, fio_failures>>
    /\ UNCHANGED <<inputVars, parseVars, cfgVars, procVars>>

\* setup_all_cgroups() is called once more, right after it has returned
setup_all_cgroups_again ==
    /\ pc = "dispatch"
    /\ IF use_cgroups
       THEN /\ groups' = setup_cgroups(cleanup_cgroups(groups))
            /\ spawned' = spawned \cup {"cgroup"}
            /\ cmds' = CleanupCommands \o SetupRuns(InOrder(DOMAIN cgroups), TRUE).cmds
            /\ log' = log \cup SetupRuns(InOrder(DOMAIN cgroups), TRUE).log
       ELSE UNCHANGED <<groups, spawned, cmds, log>>
    /\ pc' = "setup_twice"
    /\ UNCHANGED <<exit_code, queue, cur, modes, phase_idx, iostat_pid, client_pids>>
    /\ UNCHANGED <<files, iostat_files, test_files, summary>>
    /\ UNCHANGED <<launched, drops, attempts, dd_runs, fork_failures, fio_failures>>
    /\ UNCHANGED <<inputVars, parseVars, cfgVars, procVars>>

\* the earlier variant of the engine sets up the groups in
\* run_concurrent_clients: setup_cgroup("client1_steady") and
\* setup_cgroup("client2_bursty"), with no cleanup before
setup_cgroups_earlier ==
    /\ pc = "setup_all_cgroups"
    /\ IF use_cgroups
       THEN /\ groups' = setup_cgroups_from(groups, <<N.client1_steady, N.client2_bursty>>)
            /\ spawned' = spawned \cup {"cgroup"}
            /\ cmds' = SetupRuns(<<N.client1_steady, N.client2_bursty>>, FALSE).cmds
            /\ log' = log \cup SetupRuns(<<N.client1_steady, N.client2_bursty>>, FALSE).log
       ELSE UNCHANGED <<groups, spawned, cmds, log>>
    /\ pc' = "setup_earlier"
    /\ UNCHANGED <<exit_code, queue, cur, modes, phase_idx, iostat_pid, client_pids>>
    /\ UNCHANGED <<files, iostat_files, test_files, summary>>
    /\ UNCHANGED <<launched, drops, attempts, dd_runs, fork_failures, fio_failures>>
    /\ UNCHANGED <<inputVars, parseVars, cfgVars, procVars>>

has_dual_clients ==
    N.client1_steady \in DOMAIN workloads /\ N.client2_bursty \in DOMAIN workloads

\* run(): the choice of the mode
dispatch ==
    /\ pc = "dispatch"
    /\ IF mode = M.dual
       THEN /\ IF has_dual_clients
               THEN pc' = "run_concurrent_clients" /\ UNCHANGED exit_code
               ELSE Return(1)
            /\ UNCHANGED <<queue, cur>>
       ELSE IF mode = M.all
       THEN /\ pc' = "run_all_workloads"
            /\ queue' = InOrder(DOMAIN workloads)
            /\ UNCHANGED <<exit_code, cur>>
       ELSE /\ pc' = "run_workload"
            /\ cur' = mode
            /\ UNCHANGED <<exit_code, queue>>
    /\ UNCHANGED <<modes, phase_idx, iostat_pid, client_pids>>
    /\ UNCHANGED <<inputVars, parseVars, cfgVars, procVars, hostVars, obsVars>>

\* void run_all_workloads(): the loop over the workloads
run_all_workloads ==
    /\ pc = "run_all_workloads"
    /\ IF queue = <<>>
       THEN pc' = "generate_summary" /\ UNCHANGED <<queue, cur>>
       ELSE pc' = "run_workload" /\ cur' = Head(queue) /\ queue' = Tail(queue)
    /\ UNCHANGED <<exit_code, modes, phase_idx, iostat_pid, client_pids>>
    /\ UNCHANGED <<inputVars, parseVars, cfgVars, procVars, hostVars, obsVars>>

\* ------------------------------------------------------------------------
\* run_workload(workload_name)
\* ------------------------------------------------------------------------
\* the lookup of the workload and create_test_file for its file size
run_workload ==
    /\ pc = "run_workload"
    /\ IF cur \notin DOMAIN workloads
       THEN Return(1) /\ UNCHANGED <<modes, test_files, spawned, dd_runs>>
       ELSE \E r \in {create_test_file(workloads[cur].file_size, test_files)} :
                /\ test_files' = r.tf
                /\ dd_runs' = CountDd(dd_runs, IF r.status = "created"
                                                 THEN {workloads[cur].file_size} ELSE {})
                /\ spawned' = IF r.status = "created" THEN spawned \cup {"dd"} ELSE spawned
                /\ CASE r.status = "exit"  -> Exit1 /\ UNCHANGED modes
                     [] r.status = "throw" -> Terminate /\ UNCHANGED modes
                     [] OTHER -> /\ pc' = "rw_mode"
                                 /\ modes' = CacheModes(cache_mode_filter)
                                 /\ UNCHANGED exit_code
    /\ UNCHANGED <<queue, cur, phase_idx, iostat_pid, client_pids>>
    /\ UNCHANGED <<files, iostat_files, groups, summary>>
    /\ UNCHANGED <<log, launched, drops, attempts, fork_failures, fio_failures, cmds>>
    /\ UNCHANGED <<inputVars, parseVars, cfgVars, procVars>>

\* the head of the loop over the cache modes; when a mode is left, the
\* monitor is forked ("Start iostat monitoring")
rw_mode ==
    /\ pc = "rw_mode"
    /\ IF modes = <<>>
       THEN /\ pc' = IF mode = M.all THEN "run_all_workloads" ELSE "generate_summary"
            /\ UNCHANGED <<iostat_pid, monitors, iostat_files, spawned, fork_failures,
                           phase_idx, launched, drops, attempts, dd_runs>>
       ELSE \E ok \in ForkOutcomes :
              LET id == TestName(cur, Head(modes)) \o S.iostat
              IN  /\ CountFork(ok)
                  /\ iostat_pid' = IF ok THEN id ELSE NoMonitor
                  /\ monitors' = IF ok THEN MapPut(monitors, id, "running") ELSE monitors
                  /\ iostat_files' = IF ok THEN iostat_files \cup {id} ELSE iostat_files
                  /\ spawned' = IF ok THEN spawned \cup {"iostat"} ELSE spawned
                  /\ phase_idx' = 0
                  /\ launched' = [launched EXCEPT ![Main] = <<>>]
                  /\ drops' = 0
                  /\ UNCHANGED <<attempts, dd_runs>>
                  /\ pc' = "rw_drop_caches"
    /\ UNCHANGED <<exit_code, queue, cur, modes, client_pids>>
    /\ UNCHANGED <<clients, running>>
    /\ UNCHANGED <<files, test_files, groups, summary>>
    /\ UNCHANGED <<log, fio_failures, cmds>>
    /\ UNCHANGED <<inputVars, parseVars, cfgVars>>

\* drop_caches()
rw_drop_caches ==
    /\ pc = "rw_drop_caches"
    /\ spawned' = spawned \cup {"drop_caches"}
    /\ drops' = drops + 1
    /\ UNCHANGED <<attempts, dd_runs>>
    /\ pc' = "rw_phase"
    /\ UNCHANGED <<exit_code, queue, cur, modes, phase_idx, iostat_pid, client_pids>>
    /\ UNCHANGED <<log, launched, fork_failures, fio_failures, cmds>>
    /\ UNCHANGED <<inputVars, parseVars, cfgVars, procVars, hostVars>>

\* one iteration of "Run phases sequentially": the effective values, the test
\* file of the phase, and the load generator of the phase
rw_launch_phase ==
    /\ pc = "rw_phase"
    /\ phase_idx < Len(workloads[cur].phases)
    /\ LET config == workloads[cur]
           idx    == phase_idx + 1
           pfs    == PhaseFileSize(config, config.phases[idx])
           r      == IF pfs # config.file_size
                     THEN create_test_file(pfs, test_files)
                     ELSE [status |-> "reused", tf |-> test_files]
           cmd    == PhaseCmd(Main, TestName(cur, Head(modes)), config, idx, Head(modes))
       IN  /\ test_files' = r.tf
           /\ dd_runs' = CountDd(dd_runs, IF r.status = "created" THEN {pfs} ELSE {})
           /\ UNCHANGED <<drops, attempts>>
           /\ CASE r.status = "exit" ->
                     Exit1 /\ UNCHANGED <<running, launched, phase_idx, spawned>>
                [] r.status = "throw" ->
                     Terminate /\ UNCHANGED <<running, launched, phase_idx, spawned>>
                [] OTHER ->
                     /\ running' = running \cup {cmd}
                     /\ launched' = [launched EXCEPT ![Main] = Append(@, idx)]
                     /\ phase_idx' = idx
                     /\ spawned' = spawned \cup {"fio"}
                                   \cup (IF r.status = "created" THEN {"dd"} ELSE {})
                     /\ pc' = run_system("rw_system", "rw_phase")
                     /\ UNCHANGED exit_code
    /\ UNCHANGED <<queue, cur, modes, iostat_pid, client_pids>>
    /\ UNCHANGED <<monitors, clients>>
    /\ UNCHANGED <<files, iostat_files, groups, summary>>
    /\ UNCHANGED <<log, fork_failures, fio_failures, cmds>>
    /\ UNCHANGED <<inputVars, parseVars, cfgVars>>

\* a phase loop that drops the caches before it goes on to the next phase
DropBetweenPhases(next) == "rw_drop_caches"

\* "Don't drop caches between phases - maintain state": the end of an
\* iteration of the phase loop leads to the next one
BetweenPhases(next) == next

\* system() returns to run_workload: the load generator has exited
rw_system_returns ==
    /\ pc \in {"rw_system", "rw_system_single"}
    /\ RunningOf(Main) = {}
    /\ pc' = IF pc = "rw_system" THEN BetweenPhases("rw_phase") ELSE "rw_check"
    /\ UNCHANGED <<exit_code, queue, cur, modes, phase_idx, iostat_pid, client_pids>>
    /\ UNCHANGED <<inputVars, parseVars, cfgVars, procVars, hostVars, obsVars>>

\* "Merge phase results into single output file"
rw_merge ==
    /\ pc = "rw_phase"
    /\ Len(workloads[cur].phases) > 0
    /\ phase_idx >= Len(workloads[cur].phases)
    /\ LET test_name == TestName(cur, Head(modes))
           n == Len(workloads[cur].phases)
       IN  /\ files' = MergePhases(files, test_name, n)
           /\ log' = IF MergeScan(files, test_name, n) = 0
                     THEN log \cup {[kind |-> "no_valid_phase", name |-> test_name]}
                     ELSE log
    /\ pc' = "rw_check"
    /\ UNCHANGED <<exit_code, queue, cur, modes, phase_idx, iostat_pid, client_pids>>
    /\ UNCHANGED <<iostat_files, test_files, groups, summary>>
    /\ UNCHANGED <<spawned, launched, drops, attempts, dd_runs, fork_failures, fio_failures, cmds>>
    /\ UNCHANGED <<inputVars, parseVars, cfgVars, procVars>>

\* "Single-phase workload (legacy behavior)": one load generator
rw_launch_single ==
    /\ pc = "rw_phase"
    /\ Len(workloads[cur].phases) = 0
    /\ running' = running \cup
                    {LegacyCmd(Main, TestName(cur, Head(modes)), workloads[cur], Head(modes))}
    /\ launched' = [launched EXCEPT ![Main] = Append(@, 0)]
    /\ UNCHANGED <<drops, attempts, dd_runs>>
    /\ spawned' = spawned \cup {"fio"}
    /\ pc' = run_system("rw_system_single", "rw_check")
    /\ UNCHANGED <<exit_code, queue, cur, modes, phase_idx, iostat_pid, client_pids>>
    /\ UNCHANGED <<monitors, clients>>
    /\ UNCHANGED <<log, fork_failures, fio_failures, cmds>>
    /\ UNCHANGED <<inputVars, parseVars, cfgVars, hostVars>>

\* "Check result and log"
rw_check ==
    /\ pc = "rw_check"
    /\ LET test_name == TestName(cur, Head(modes))
       IN  log' = log \cup {[kind |-> IF JsonFile(test_name) \in DOMAIN files
                                       THEN "completed" ELSE "failed",
                             name |-> test_name]}
    /\ pc' = "rw_stop_iostat"
    /\ UNCHANGED <<exit_code, queue, cur, modes, phase_idx, iostat_pid, client_pids>>
    /\ UNCHANGED <<spawned, launched, drops, attempts, dd_runs, fork_failures, fio_failures, cmds>>
    /\ UNCHANGED <<inputVars, parseVars, cfgVars, procVars, hostVars>>

\* a "Stop iostat" that leaves the monitor
LeaveMonitor(m, pid) == m

\* kill(iostat_pid, SIGTERM); waitpid(iostat_pid, nullptr, 0): the monitors left
StopMonitor(m, pid) == [x \in (DOMAIN m) \ {pid} |-> m[x]]

\* "Stop iostat", and the end of the iteration over the cache modes
rw_stop_iostat ==
    /\ pc = "rw_stop_iostat"
    /\ monitors' = IF iostat_pid # NoMonitor THEN StopMonitor(monitors, iostat_pid) ELSE monitors
    /\ modes' = Tail(modes)
    /\ pc' = "rw_mode"
    /\ UNCHANGED <<exit_code, queue, cur, phase_idx, iostat_pid, client_pids>>
    /\ UNCHANGED <<clients, running>>
    /\ UNCHANGED <<inputVars, parseVars, cfgVars, hostVars, obsVars>>

\* ------------------------------------------------------------------------
\* The processes the engine does not control
\* ------------------------------------------------------------------------
\* a load generator exits; it has left its result, an empty file, or nothing
fio_exit ==
    \E c \in running :
      \E out \in IF fio_failures < MaxFioFailures THEN {"ok", "empty", "none"} ELSE {"ok"} :
        /\ running' = running \ {c}
        /\ files' = CASE out = "ok"    -> MapPut(files, c.output, c.name)
                      [] out = "empty" -> MapPut(files, c.output, <<>>)
                      [] OTHER         -> files
        /\ fio_failures' = IF out = "ok" THEN fio_failures ELSE fio_failures + 1
        /\ UNCHANGED <<monitors, clients>>
        /\ UNCHANGED <<iostat_files, test_files, groups, summary>>
        /\ UNCHANGED <<log, spawned, launched, drops, attempts, dd_runs, fork_failures, cmds>>
        /\ UNCHANGED <<inputVars, parseVars, cfgVars, ctlVars>>

\* the monitor child when /usr/bin/iostat cannot be executed: exit(1)
iostat_exec_fails ==
    \E id \in DOMAIN monitors :
        /\ ~host.iostat
        /\ monitors[id] = "running"
        /\ monitors' = [monitors EXCEPT ![id] = "zombie"]
        /\ UNCHANGED <<clients, running>>
        /\ UNCHANGED <<inputVars, parseVars, cfgVars, ctlVars, hostVars, obsVars>>

\* ------------------------------------------------------------------------
\* run(): the end
\* ------------------------------------------------------------------------
\* void generate_summary()
generate_summary ==
    /\ pc = "generate_summary"
    /\ summary' = [json_files |-> Cardinality({f \in DOMAIN files : IsJson(f)}),
                   iostat_files |-> Cardinality(iostat_files),
                   written |-> TRUE]
    /\ pc' = "cleanup_cgroups"
    /\ UNCHANGED <<exit_code, queue, cur, modes, phase_idx, iostat_pid, client_pids>>
    /\ UNCHANGED <<files, iostat_files, test_files, groups>>
    /\ UNCHANGED <<inputVars, parseVars, cfgVars, procVars, obsVars>>

\* "Final cleanup": cleanup_cgroups(), and run() returns 0
final_cleanup ==
    /\ pc = "cleanup_cgroups"
    /\ IF use_cgroups
       THEN /\ groups' = cleanup_cgroups(groups)
            /\ spawned' = spawned \cup {"cgroup"}
            /\ cmds' = CleanupCommands
       ELSE UNCHANGED <<groups, spawned, cmds>>
    /\ Return(0)
    /\ UNCHANGED <<queue, cur, modes, phase_idx, iostat_pid, client_pids>>
    /\ UNCHANGED <<files, iostat_files, test_files, summary>>
    /\ UNCHANGED <<log, launched, drops, attempts, dd_runs, fork_failures, fio_failures>>
    /\ UNCHANGED <<inputVars, parseVars, cfgVars, procVars>>

\* ------------------------------------------------------------------------
\* run_concurrent_clients()
\* ------------------------------------------------------------------------
\* "Collect all unique file sizes" of a client
FileSizesOf(config) ==
    {config.file_size}
    \cup {config.phases[i].file_size :
            i \in {j \in 1..Len(config.phases) : config.phases[j].file_size # <<>>}}

\* the lookup of the two clients and "Create all unique test files"
run_concurrent_clients ==
    /\ pc = "run_concurrent_clients"
    /\ IF ~has_dual_clients
       THEN Return(1) /\ UNCHANGED <<modes, test_files, spawned, dd_runs>>
       ELSE \E r \in {create_test_files(
                           InOrder(FileSizesOf(workloads[N.client1_steady])
                                   \cup FileSizesOf(workloads[N.client2_bursty])),
                           test_files)} :
                /\ test_files' = r.tf
                /\ dd_runs' = CountDd(dd_runs,
                                      DdRuns(InOrder(FileSizesOf(workloads[N.client1_steady])
                                                     \cup FileSizesOf(workloads[N.client2_bursty])),
                                             test_files))
                /\ spawned' = IF r.tf # test_files THEN spawned \cup {"dd"} ELSE spawned
                /\ CASE r.status = "exit"  -> Exit1 /\ UNCHANGED modes
                     [] r.status = "throw" -> Terminate /\ UNCHANGED modes
                     [] OTHER -> /\ pc' = "cc_mode"
                                 /\ modes' = CacheModes(cache_mode_filter)
                                 /\ UNCHANGED exit_code
    /\ UNCHANGED <<queue, cur, phase_idx, iostat_pid, client_pids>>
    /\ UNCHANGED <<files, iostat_files, groups, summary>>
    /\ UNCHANGED <<log, launched, drops, attempts, fork_failures, fio_failures, cmds>>
    /\ UNCHANGED <<inputVars, parseVars, cfgVars, procVars>>

\* the head of the loop over the cache modes, and "Start iostat monitoring"
cc_mode ==
    /\ pc = "cc_mode"
    /\ IF modes = <<>>
       THEN /\ pc' = "generate_summary"
            /\ UNCHANGED <<iostat_pid, monitors, iostat_files, spawned, fork_failures,
                           client_pids, launched, drops, attempts, dd_runs>>
       ELSE \E ok \in ForkOutcomes :
              LET id == S.concurrent_ \o Head(modes) \o S.iostat
              IN  /\ CountFork(ok)
                  /\ iostat_pid' = IF ok THEN id ELSE NoMonitor
                  /\ monitors' = IF ok THEN MapPut(monitors, id, "running") ELSE monitors
                  /\ iostat_files' = IF ok THEN iostat_files \cup {id} ELSE iostat_files
                  /\ spawned' = IF ok THEN spawned \cup {"iostat"} ELSE spawned
                  /\ client_pids' = <<>>
                  /\ launched' = [p \in DOMAIN launched |-> <<>>]
                  /\ drops' = 0
                  /\ attempts' = {}
                  /\ UNCHANGED dd_runs
                  /\ pc' = "cc_drop_caches"
    /\ UNCHANGED <<exit_code, queue, cur, modes, phase_idx>>
    /\ UNCHANGED <<clients, running>>
    /\ UNCHANGED <<files, test_files, groups, summary>>
    /\ UNCHANGED <<log, fio_failures, cmds>>
    /\ UNCHANGED <<inputVars, parseVars, cfgVars>>

\* drop_caches()
cc_drop_caches ==
    /\ pc = "cc_drop_caches"
    /\ spawned' = spawned \cup {"drop_caches"}
    /\ drops' = drops + 1
    /\ UNCHANGED <<attempts, dd_runs>>
    /\ pc' = "cc_fork_client1"
    /\ UNCHANGED <<exit_code, queue, cur, modes, phase_idx, iostat_pid, client_pids>>
    /\ UNCHANGED <<log, launched, fork_failures, fio_failures, cmds>>
    /\ UNCHANGED <<inputVars, parseVars, cfgVars, procVars, hostVars>>

\* a coordinator that waits for client 1 before it forks client 2
WaitFirst(i) == "cc_wait1"

\* the coordinator's position after it has forked client i and attached it
AfterAttach(i) == IF i = 1 THEN "cc_fork_client2" ELSE "cc_wait1"

\* a child that calls run_client_process first
ChildRunsFirst == "phase"

\* the child of fork(): its first statement is add_pid_to_cgroup(name, getpid())
ChildStart == "attach"

\* "Launch client1" / "Launch client2": fork(), client_pids.push_back(pid)
cc_fork_client(i) ==
    /\ pc = (IF i = 1 THEN "cc_fork_client1" ELSE "cc_fork_client2")
    /\ \E ok \in ForkOutcomes :
          /\ CountFork(ok)
          /\ clients' = IF ok THEN [clients EXCEPT ![i] = [NoClient EXCEPT !.pc = ChildStart]]
                        ELSE clients
          /\ client_pids' = Append(client_pids, IF ok THEN i ELSE NoPid)
          /\ spawned' = IF ok THEN spawned \cup {"client"} ELSE spawned
    /\ pc' = (IF i = 1 THEN "cc_attach_client1" ELSE "cc_attach_client2")
    /\ UNCHANGED <<exit_code, queue, cur, modes, phase_idx, iostat_pid>>
    /\ UNCHANGED <<monitors, running>>
    /\ UNCHANGED <<log, launched, drops, attempts, dd_runs, fio_failures, cmds>>
    /\ UNCHANGED <<inputVars, parseVars, cfgVars, hostVars>>

\* "Add child to cgroup from parent side"
cc_attach_client(i) ==
    /\ pc = (IF i = 1 THEN "cc_attach_client1" ELSE "cc_attach_client2")
    /\ groups' = add_pid_to_cgroup(groups, ClientWorkload(i), client_pids[i])
    /\ log' = AttachLog(groups, ClientWorkload(i), client_pids[i])
    /\ spawned' = IF AttachSpawns(ClientWorkload(i)) THEN spawned \cup {"cgroup"} ELSE spawned
    /\ attempts' = AttachAttempts(ClientWorkload(i), "parent", client_pids[i])
    /\ UNCHANGED dd_runs
    /\ pc' = AfterAttach(i)
    /\ UNCHANGED <<exit_code, queue, cur, modes, phase_idx, iostat_pid, client_pids>>
    /\ UNCHANGED <<files, iostat_files, test_files, summary>>
    /\ UNCHANGED <<launched, drops, fork_failures, fio_failures, cmds>>
    /\ UNCHANGED <<inputVars, parseVars, cfgVars, procVars>>

\* the children of the coordinator that waitpid(-1, ...) can wait for
Children ==
    {<<"client", i>> : i \in {j \in ClientIds : clients[j].pc \notin {"none", "reaped"}}}
    \cup {<<"monitor", id>> : id \in DOMAIN monitors}
ZombieChildren ==
    {<<"client", i>> : i \in {j \in ClientIds : clients[j].pc = "zombie"}}
    \cup {<<"monitor", id>> : id \in {m \in DOMAIN monitors : monitors[m] = "zombie"}}

\* the process table after waitpid has reaped ch
Reap(ch) ==
    IF ch[1] = "client"
    THEN /\ clients' = [clients EXCEPT ![ch[2]].pc = "reaped"]
         /\ UNCHANGED monitors
    ELSE /\ monitors' = StopMonitor(monitors, ch[2])
         /\ UNCHANGED clients

\* "✓ Client completed successfully" / "✗ Client failed or was terminated"
LogClient(k, ok) ==
    log' = log \cup {[kind |-> IF ok THEN "client_ok" ELSE "client_failed",
                      name |-> TestName(ClientName(k), Head(modes))]}

\* one iteration of "Wait for both clients to complete":
\* waitpid(client_pids[k], &status, 0) and the message logged
cc_wait(k) ==
    /\ pc = (IF k = 1 THEN "cc_wait1" ELSE "cc_wait2")
    /\ LET pid == client_pids[k]
       IN  IF pid # NoPid
           THEN IF clients[pid].pc = "reaped"
                THEN \* ECHILD: status is read uninitialised
                     /\ \E ok \in BOOLEAN : LogClient(k, ok)
                     /\ UNCHANGED <<clients, monitors>>
                ELSE /\ clients[pid].pc = "zombie"
                     /\ Reap(<<"client", pid>>)
                     /\ LogClient(k, clients[pid].status = 0)
           ELSE \* waitpid(-1, ...): any child
                IF Children = {}
                THEN /\ \E ok \in BOOLEAN : LogClient(k, ok)
                     /\ UNCHANGED <<clients, monitors>>
                ELSE \E ch \in ZombieChildren :
                        /\ Reap(ch)
                        \* the monitor child exits with 1
                        /\ LogClient(k, ch[1] = "client" /\ clients[ch[2]].status = 0)
    /\ pc' = (IF k = 1 THEN "cc_wait2" ELSE "cc_stop_iostat")
    /\ UNCHANGED <<exit_code, queue, cur, modes, phase_idx, iostat_pid, client_pids>>
    /\ UNCHANGED running
    /\ UNCHANGED <<spawned, launched, drops, attempts, dd_runs, fork_failures, fio_failures, cmds>>
    /\ UNCHANGED <<inputVars, parseVars, cfgVars, hostVars>>

\* "Stop iostat", and the end of the iteration over the cache modes
cc_stop_iostat ==
    /\ pc = "cc_stop_iostat"
    /\ monitors' = IF iostat_pid # NoMonitor THEN StopMonitor(monitors, iostat_pid) ELSE monitors
    /\ modes' = Tail(modes)
    /\ pc' = "cc_mode"
    /\ UNCHANGED <<exit_code, queue, cur, phase_idx, iostat_pid, client_pids>>
    /\ UNCHANGED <<clients, running>>
    /\ UNCHANGED <<inputVars, parseVars, cfgVars, hostVars, obsVars>>

\* ------------------------------------------------------------------------
\* A client process: the child of fork() in run_concurrent_clients. The
\* cache mode it runs in is the one the coordinator is in, Head(modes).
\* ------------------------------------------------------------------------
\* "Add self to cgroup"
client_attach(i) ==
    /\ clients[i].pc = "attach"
    /\ groups' = add_pid_to_cgroup(groups, ClientWorkload(i), i)
    /\ log' = AttachLog(groups, ClientWorkload(i), i)
    /\ spawned' = IF AttachSpawns(ClientWorkload(i)) THEN spawned \cup {"cgroup"} ELSE spawned
    /\ attempts' = AttachAttempts(ClientWorkload(i), "child", i)
    /\ UNCHANGED dd_runs
    /\ clients' = [clients EXCEPT ![i].pc = "phase"]
    /\ UNCHANGED <<monitors, running>>
    /\ UNCHANGED <<files, iostat_files, test_files, summary>>
    /\ UNCHANGED <<launched, drops, fork_failures, fio_failures, cmds>>
    /\ UNCHANGED <<inputVars, parseVars, cfgVars, ctlVars>>

\* one iteration of the loop of run_client_process
client_launch_phase(i) ==
    /\ clients[i].pc = "phase"
    /\ clients[i].phase_idx < Len(workloads[ClientWorkload(i)].phases)
    /\ LET config == workloads[ClientWorkload(i)]
           idx    == clients[i].phase_idx + 1
           pfs    == PhaseFileSize(config, config.phases[idx])
           r      == IF pfs # config.file_size /\ pfs \notin DOMAIN test_files
                     THEN create_test_file(pfs, test_files)
                     ELSE [status |-> "reused", tf |-> test_files]
           cmd    == PhaseCmd(i, TestName(ClientName(i), Head(modes)), config, idx, Head(modes))
       IN  /\ test_files' = r.tf
           /\ dd_runs' = CountDd(dd_runs, IF r.status = "created" THEN {pfs} ELSE {})
           /\ UNCHANGED <<drops, attempts>>
           /\ CASE r.status = "exit" ->
                     /\ clients' = [clients EXCEPT ![i].pc = "zombie", ![i].status = 1]
                     /\ UNCHANGED <<running, launched, spawned>>
                [] r.status = "throw" ->
                     /\ clients' = [clients EXCEPT ![i].pc = "zombie", ![i].status = 134]
                     /\ UNCHANGED <<running, launched, spawned>>
                [] OTHER ->
                     /\ running' = running \cup {cmd}
                     /\ launched' = [launched EXCEPT ![i] = Append(@, idx)]
                     /\ spawned' = spawned \cup {"fio"}
                                   \cup (IF r.status = "created" THEN {"dd"} ELSE {})
                     /\ clients' = [clients EXCEPT ![i].pc = run_system("system", "phase"),
                                                   ![i].phase_idx = idx]
    /\ UNCHANGED monitors
    /\ UNCHANGED <<files, iostat_files, groups, summary>>
    /\ UNCHANGED <<log, fork_failures, fio_failures, cmds>>
    /\ UNCHANGED <<inputVars, parseVars, cfgVars, ctlVars>>

\* system() returns to run_client_process
client_system_returns(i) ==
    /\ clients[i].pc = "system"
    /\ RunningOf(i) = {}
    /\ clients' = [clients EXCEPT ![i].pc = "phase"]
    /\ UNCHANGED <<monitors, running>>
    /\ UNCHANGED <<inputVars, parseVars, cfgVars, ctlVars, hostVars, obsVars>>

\* run_client_process has returned: exit(0)
client_exit(i) ==
    /\ clients[i].pc = "phase"
    /\ clients[i].phase_idx >= Len(workloads[ClientWorkload(i)].phases)
    /\ clients' = [clients EXCEPT ![i].pc = "zombie", ![i].status = 0]
    /\ UNCHANGED <<monitors, running>>
    /\ UNCHANGED <<inputVars, parseVars, cfgVars, ctlVars, hostVars, obsVars>>

\* ------------------------------------------------------------------------
\* Specifications
\* ------------------------------------------------------------------------
Next ==
    \/ check_dependencies
    \/ parse_open
    \/ parse_line
    \/ parse_finish
    \/ parse_cgroup_config
    \/ setup
    \/ setup_all_cgroups
    \/ dispatch
    \/ run_all_workloads
    \/ run_workload
    \/ rw_mode
    \/ rw_drop_caches
    \/ rw_launch_phase
    \/ rw_launch_single
    \/ rw_system_returns
    \/ rw_merge
    \/ rw_check
    \/ rw_stop_iostat
    \/ fio_exit
    \/ iostat_exec_fails
    \/ generate_summary
    \/ final_cleanup
    \/ run_concurrent_clients
    \/ cc_mode
    \/ cc_drop_caches
    \/ \E i \in ClientIds : cc_fork_client(i)
    \/ \E i \in ClientIds : cc_attach_client(i)
    \/ \E k \in ClientIds : cc_wait(k)
    \/ cc_stop_iostat
    \/ \E i \in ClientIds : client_attach(i)
    \/ \E i \in ClientIds : client_launch_phase(i)
    \/ \E i \in ClientIds : client_system_returns(i)
    \/ \E i \in ClientIds : client_exit(i)

\* a run of the engine
Spec == Init /\ [][Next]_vars

NextParse ==
    \/ parse_open
    \/ parse_line
    \/ parse_finish
    \/ parse_again

\* the parser on its own
SpecParse == InitParse /\ [][NextParse]_vars

NextGroups ==
    \/ check_dependencies
    \/ parse_open
    \/ parse_line
    \/ parse_finish
    \/ parse_cgroup_config
    \/ setup
    \/ setup_all_cgroups
    \/ setup_all_cgroups_again

\* the resource-group controller on its own
SpecGroups == InitGroups /\ [][NextGroups]_vars

NextControl ==
    \/ check_dependencies
    \/ parse_open
    \/ parse_line
    \/ parse_finish
    \/ parse_cgroup_config
    \/ setup
    \/ setup_all_cgroups
    \/ setup_cgroups_earlier

\* the resource-group controller on every configuration file
SpecControl == InitControl /\ [][NextControl]_vars

NextFiles ==
    \/ check_dependencies
    \/ parse_open
    \/ parse_line
    \/ parse_finish
    \/ parse_cgroup_config
    \/ setup
    \/ setup_all_cgroups
    \/ dispatch
    \/ run_all_workloads
    \/ run_workload
    \/ rw_mode
    \/ rw_drop_caches
    \/ rw_launch_phase
    \/ rw_launch_single
    \/ rw_system_returns
    \/ rw_merge
    \/ rw_check
    \/ rw_stop_iostat
    \/ fio_exit
    \/ generate_summary
    \/ final_cleanup

\* the test file provisioner on its own
SpecFiles == InitFiles /\ [][NextFiles]_vars

\* the phase driver on its own
SpecPhases == InitPhases /\ [][Next]_vars


\* run() from setup_all_cgroups on
NextRun ==
    \/ setup_all_cgroups
    \/ dispatch
    \/ run_all_workloads
    \/ run_workload
    \/ rw_mode
    \/ rw_drop_caches
    \/ rw_launch_phase
    \/ rw_launch_single
    \/ rw_system_returns
    \/ rw_merge
    \/ rw_check
    \/ rw_stop_iostat
    \/ fio_exit
    \/ iostat_exec_fails
    \/ generate_summary
    \/ final_cleanup
    \/ run_concurrent_clients
    \/ cc_mode
    \/ cc_drop_caches
    \/ \E i \in ClientIds : cc_fork_client(i)
    \/ \E i \in ClientIds : cc_attach_client(i)
    \/ \E k \in ClientIds : cc_wait(k)
    \/ cc_stop_iostat
    \/ \E i \in ClientIds : client_attach(i)
    \/ \E i \in ClientIds : client_launch_phase(i)
    \/ \E i \in ClientIds : client_system_returns(i)
    \/ \E i \in ClientIds : client_exit(i)

\* the run from setup_all_cgroups on, under the assumption that every
\* process that can take a step eventually takes one: a load generator that
\* runs exits, a child that exists is scheduled, and the coordinator goes on
\* when it is not blocked in a wait
SpecRunLive == InitRun /\ [][NextRun]_vars /\ WF_vars(NextRun)

\* ------------------------------------------------------------------------
\* Properties
\* ------------------------------------------------------------------------
Ended == pc \in {"returned", "exited", "terminated"}

\* the configuration of the process that launched a load generator
ConfigOf(owner) ==
    IF owner = Main THEN workloads[cur] ELSE workloads[ClientWorkload(owner)]

\* the result files of the output directory
JsonFiles == {f \in DOMAIN files : IsJson(f)}

\* C1: run("dual") on a configuration that lacks one of the two clients
\* returns non-zero, and no process (monitor, client, load generator,
\* resource-group command) has been spawned since parsing ended.
C1_NoSpawnBeforeFatalReturn ==
    (mode = M.dual /\ parsed # <<>> /\ ~has_dual_clients /\ pc = "returned")
        => (exit_code # 0 /\ spawned = {})

\* C2: a process launches its load generators in ascending phase order and
\* has at most one of them running: the one it launched last.
C2_PhasesSequential ==
    \A p \in {Main} \cup ClientIds :
        /\ Cardinality(RunningOf(p)) <= 1
        /\ \A k \in 1..(Len(launched[p]) - 1) : launched[p][k] < launched[p][k + 1]
        /\ \A c \in RunningOf(p) :
              launched[p] # <<>> /\ c.idx = launched[p][Len(launched[p])]

\* C2 (witness): a process has the load generator of its second phase
\* running, the first one gone.
C2_SecondPhaseRunning ==
    \E p \in {Main} \cup ClientIds :
        /\ launched[p] = <<1, 2>>
        /\ \E c \in RunningOf(p) : c.idx = 2

C4_FailedPairLoggedAndRunGoesOn ==
    mode # M.dual =>
        /\ \A e \in log :
              e.kind = "completed" => NonEmptyFile(files, JsonFile(e.name))
        /\ (\E e \in log : e.kind = "failed") => pc \notin {"exited", "terminated"}

\* setup has succeeded: the configuration was parsed with at least one
\* workload and what the mode requires is in it
SetupSucceeded ==
    /\ parsed # <<>>
    /\ DOMAIN workloads # {}
    /\ mode = M.dual => has_dual_clients
    /\ mode \notin {M.dual, M.all} => mode \in DOMAIN workloads

\* C5: once setup has succeeded the engine ends only by returning 0 with the
\* summary written.
C5_NoEarlyTermination ==
    (SetupSucceeded /\ Ended)
        => (pc = "returned" /\ exit_code = 0 /\ summary.written)

\* the phases of test_name, out of n, whose artifact exists and is non-empty
ValidPhases(test_name, n) ==
    {k \in 1..n : NonEmptyFile(files, JsonFile(PhaseName(test_name, k)))}

\* C6: after the merge step of a multi-phase pair the canonical file holds
\* the content of the highest-numbered phase artifact that is non-empty;
\* when there is none, there is no canonical file and the warning is logged.
C6_MergePicksHighestValid ==
    (pc = "rw_check" /\ Len(workloads[cur].phases) > 0) =>
        \E test_name \in {TestName(cur, Head(modes))} :
        \E ok \in {ValidPhases(test_name, Len(workloads[cur].phases))} :
            IF ok = {}
            THEN /\ JsonFile(test_name) \notin DOMAIN files
                 /\ [kind |-> "no_valid_phase", name |-> test_name] \in log
            ELSE /\ JsonFile(test_name) \in DOMAIN files
                 /\ files[JsonFile(test_name)]
                      = files[JsonFile(PhaseName(test_name, SetMax(ok)))]

\* C6 (witness): w of three phases in cached mode, after the merge: phase 1
\* left an empty artifact, phase 2 a result, phase 3 nothing, and the
\* canonical file holds the result of phase 2.
C6_Phase2Selected ==
    /\ pc = "rw_check"
    /\ cur = N.w
    /\ modes # <<>> /\ Head(modes) = M.cached
    /\ Len(workloads[cur].phases) = 3
    /\ \E t \in {TestName(N.w, M.cached)} :
          /\ JsonFile(PhaseName(t, 1)) \in DOMAIN files
          /\ files[JsonFile(PhaseName(t, 1))] = <<>>
          /\ NonEmptyFile(files, JsonFile(PhaseName(t, 2)))
          /\ JsonFile(PhaseName(t, 3)) \notin DOMAIN files
          /\ JsonFile(t) \in DOMAIN files
          /\ files[JsonFile(t)] = PhaseName(t, 2)

\* C7: the load generator of a phase that omits ioengine, numjobs, file_size
\* or rate_iops is given the value of the workload for that parameter.
C7_OmittedParamIsWorkloadDefault ==
    \A c \in running :
        c.idx > 0 =>
            \E config \in {ConfigOf(c.owner)} :
            \E phase \in {config.phases[c.idx]} :
                /\ phase.ioengine = <<>> => c.ioengine = config.ioengine
                /\ phase.numjobs = 0 => c.numjobs = config.numjobs
                /\ phase.file_size = <<>> => c.size = config.file_size
                /\ phase.rate_iops = 0 => c.rate_iops = config.rate_iops

\* the section name of a header line
HeaderName(line) == substr(line, 1, Len(line) - 2)
\* line is a phase_<N>_<param> = value line
DeclaresPhase(line) ==
    /\ ~IsSkipped(line)
    /\ ~IsHeader(line)
    /\ find(line, "=", 0) # Npos
    /\ IsPhaseKey(LineKey(line))
    /\ find(LineKey(line), "_", 6) # Npos
\* the N of a phase_<N>_<param> = value line
DeclaredNum(line) ==
    stoi(substr(LineKey(line), 6, find(LineKey(line), "_", 6) - 6)).val
\* the lines of the last section named s of a text
SectionLines(text, s) ==
    LET start == SetMax({i \in 1..Len(text) : IsHeader(text[i]) /\ HeaderName(text[i]) = s})
        stop  == SetMin({j \in (start + 1)..(Len(text) + 1) :
                            j = Len(text) + 1 \/ IsHeader(text[j])})
    IN  (start + 1)..(stop - 1)
\* the phase numbers the last section named s declares
DeclaredNums(text, s) ==
    {DeclaredNum(text[k]) : k \in {j \in SectionLines(text, s) : DeclaresPhase(text[j])}}

\* C8: when parse_config_file has returned, the phases of every workload are
\* in strictly ascending order of their phase number, one phase for each
\* number its section declares, whatever the order of the lines.
C8_PhasesSortedByNumber ==
    (pc = "parse_cgroup_config" /\ parsed # <<>>) =>
        \A s \in DOMAIN workloads :
            /\ Len(workloads[s].phases) = Len(phase_nums[s])
            /\ \A i \in 1..(Len(phase_nums[s]) - 1) : phase_nums[s][i] < phase_nums[s][i + 1]
            /\ {phase_nums[s][i] : i \in 1..Len(phase_nums[s])} = DeclaredNums(config_text, s)

\* C8 (witness): a section that declares phase 3 before phase 1, and phase 1
\* twice (as 1 and as 01), has been parsed into the phases 1, 3.
C8_OutOfOrderParsed ==
    /\ pc = "parse_cgroup_config"
    /\ config_text = <<L.sec_w, L.p3_pattern, L.p1_runtime, L.p01_pattern>>
    /\ phase_nums[N.w] = <<1, 3>>
    /\ workloads[N.w].phases[1].runtime > 0
    /\ workloads[N.w].phases[1].pattern # <<>>

\* C9: every call of parse_config_file that returns on one engine leaves the
\* same workloads as the first call, made on the fresh engine.
C9_ParseIdempotent ==
    \A i \in DOMAIN parsed : parsed[i] = parsed[1]

\* C9 (witness): a text with a multi-phase section has been parsed twice.
C9_ParsedTwice ==
    /\ Len(parsed) = 2
    /\ \E s \in DOMAIN parsed[2] :
          Len(parsed[2][s].phases) = 2 /\ parsed[2][s].file_size # <<>>

\* C10: a single multi-phase workload of n phases, every load generator
\* succeeding and no resource-group file: the run returns 0 with isolation
\* disabled, and the output directory holds, per cache mode, the n phase
\* artifacts and the canonical one, and no other result file.
C10_ArtifactsOfSingleWorkload ==
    (/\ mode \notin {M.dual, M.all}
     /\ mode \in DOMAIN workloads
     /\ Len(workloads[mode].phases) > 0
     /\ cgroup_file = "absent"
     /\ fio_failures = 0
     /\ pc = "returned") =>
        \E n \in {Len(workloads[mode].phases)} :
        \E ms \in {CacheModes(cache_mode_filter)} :
            /\ exit_code = 0
            /\ ~use_cgroups
            /\ "cgroup" \notin spawned
            /\ summary.written
            /\ \A j \in 1..Len(ms) :
                  /\ NonEmptyFile(files, JsonFile(TestName(mode, ms[j])))
                  /\ \A k \in 1..n :
                        NonEmptyFile(files, JsonFile(PhaseName(TestName(mode, ms[j]), k)))
            /\ Cardinality(JsonFiles) = (n + 1) * Len(ms)

\* C10 (witness): w of three phases has run in both cache modes, every load
\* generator succeeded, and the output directory holds 8 result files.
C10_EightResultFiles ==
    /\ pc = "returned"
    /\ mode = N.w
    /\ config_text = T.multi
    /\ cache_mode_filter = M.both
    /\ cgroup_file = "absent"
    /\ fio_failures = 0
    /\ exit_code = 0
    /\ Cardinality(JsonFiles) = 8

ExactBytes(n, k) ==
    CASE k = 0 -> Bytes(n \div MibBytes, n % MibBytes)
      [] k = 1 -> Bytes(n \div Kib, (n % Kib) * Kib)
      [] k = 2 -> Bytes(n, 0)
      [] k = 3 -> Bytes(n * Kib, 0)
      [] k = 4 -> Bytes(n * Kib * Kib, 0)

\* run_workload is about to call create_test_file with the size expression s
ProvisionCall(s) ==
    pc = "run_workload" /\ cur \in DOMAIN workloads /\ workloads[cur].file_size = s

\* the test file of the size expression s is there with at least b bytes
FoundAtLeast(s, b) == s \in DOMAIN test_files /\ SizeGE(test_files[s], b)

\* C12: create_test_file called with a size expression for which a file of
\* at least the requested size is at the path returns without a write: the
\* test files are as before and no dd is run.
C12_ExistingFileUntouched ==
    [][\A n \in SizeNums : \A k \in 0..Len(SizeUnits) :
          (ProvisionCall(SizeText(n, k)) /\ FoundAtLeast(SizeText(n, k), ExactBytes(n, k)))
              => (test_files' = test_files /\ spawned' = spawned /\ pc' = "rw_mode")]_vars

\* C12 (witness): create_test_file("2M") has returned where a file of 2 GiB
\* was found; the file is as it was and no dd was run.
C12_LargerFileKept ==
    /\ pc = "rw_mode"
    /\ workloads[cur].file_size = <<"2", "M">>
    /\ test_files = (<<"2", "M">> :> Bytes(2 * Kib, 0))
    /\ "dd" \notin spawned

\* C13: create_test_file called with n and a unit K, M, G or T (n > 0), when
\* it does not reuse a file, leaves a file of exactly n * 1024^k bytes.
C13_CreatedFileHasExactSize ==
    [][\A n \in SizeNums \ {0} : \A k \in 1..Len(SizeUnits) :
          (ProvisionCall(SizeText(n, k)) /\ ~FoundAtLeast(SizeText(n, k), ExactBytes(n, k)))
              => /\ SizeText(n, k) \in DOMAIN test_files'
                 /\ test_files'[SizeText(n, k)] = ExactBytes(n, k)]_vars

\* C14: create_test_file called with a text that is not a number with an
\* optional unit ends the call with an error: no file is created and none is
\* reused, whether or not a file is at the path.
C14_BadSizeFails ==
    [][\A s \in BadSizeTexts :
          ProvisionCall(s)
              => /\ pc' \in {"exited", "terminated"}
                 /\ test_files' = test_files
                 /\ "dd" \notin spawned']_vars

\* C15: run_workload logs a (workload, cache mode) pair as completed exactly
\* when a non-empty result file is at its canonical path, and as failed when
\* the file is missing or empty.
C15_CompletedIffNonEmptyResult ==
    mode # M.dual =>
        \A e \in log :
            e.kind \in {"completed", "failed"} =>
                (e.kind = "completed" <=> NonEmptyFile(files, JsonFile(e.name)))

\* C16: with every fork successful, the coordinator logs a client as
\* successful in a cache mode only if every phase of the client left a
\* non-empty artifact in that mode.
C16_ClientOkOnlyWithAllArtifacts ==
    (mode = M.dual /\ fork_failures = 0) =>
        \A k \in ClientIds : \A m \in {M.cached, M.direct} :
            [kind |-> "client_ok", name |-> TestName(ClientName(k), m)] \in log =>
                \A idx \in 1..Len(workloads[ClientWorkload(k)].phases) :
                    NonEmptyFile(files, JsonFile(PhaseName(TestName(ClientName(k), m), idx)))

\* add_pid_to_cgroup(client_name, pid) is called and its command fails
AttachFails(client_name, pid) ==
    AttachSpawns(client_name) /\ ~AttachOk(groups, client_name, pid)

\* C17: when add_pid_to_cgroup fails for a client process (every fork
\* having succeeded), in the client or in the coordinator, the failure is
\* in the log after the call, the client goes on to its phases and the
\* coordinator to its next step.
C17_AttachFailureLoggedNotFatal ==
    [][\A i \in ClientIds :
          /\ (clients[i].pc = "attach" /\ clients'[i].pc # "attach"
                 /\ fork_failures = 0 /\ AttachFails(ClientWorkload(i), i))
                => /\ \E e \in log' : e.kind = "attach_failed"
                   /\ clients'[i].pc = "phase"
          /\ (pc = (IF i = 1 THEN "cc_attach_client1" ELSE "cc_attach_client2") /\ pc' # pc
                 /\ fork_failures = 0 /\ AttachFails(ClientWorkload(i), client_pids[i]))
                => /\ \E e \in log' : e.kind = "attach_failed"
                   /\ pc' = AfterAttach(i)]_vars

\* what makes run() return non-zero: a tool or the configuration missing,
\* no workload parsed, or a workload the mode requires not configured
FatalCause ==
    \/ ~host.fio \/ ~host.config \/ ~host.readable
    \/ DOMAIN workloads = {}
    \/ mode = M.dual /\ ~has_dual_clients
    \/ mode \notin {M.dual, M.all} /\ mode \notin DOMAIN workloads

\* C18: with the resource-group file absent, or isolation disabled, the
\* group tree of the host stays as the run found it (no group made,
\* configured or removed, no member added or killed), no resource-group
\* command is run, and run() returns non-zero only for another cause.
C18_NoIsolationNoGroupChange ==
    (cgroup_file = "absent" \/ ~use_cgroups) =>
        /\ groups = StaleGroups
        /\ "cgroup" \notin spawned
        /\ (pc = "returned" /\ exit_code # 0) => FatalCause

\* C18 (witness): a dual run with --no-cgroup and the resource-group file
\* present has returned 0 after both clients ran; the group tree is as found.
C18_DualRunWithoutIsolation ==
    /\ pc = "returned"
    /\ exit_code = 0
    /\ mode = M.dual
    /\ cgroup_file = "present"
    /\ ~use_cgroups
    /\ DOMAIN cgroups # {}
    /\ \A i \in ClientIds : clients[i].pc = "reaped"
    /\ groups = StaleGroups

\* a fatal error that run() detects before setup()
FatalBeforeSetup ==
    \/ ~host.fio \/ ~host.config \/ ~host.readable
    \/ parsed # <<>> /\ DOMAIN workloads = {}

\* C19: when the load generator is missing, the configuration file is
\* missing or unreadable, or no workload was parsed, run() returns non-zero
\* and has changed nothing: the output directory and the test files are as
\* found, the group tree is as found, and no process was spawned.
C19_FatalBeforeSetupNoSideEffect ==
    (FatalBeforeSetup /\ Ended) =>
        /\ pc = "returned"
        /\ exit_code # 0
        /\ files = StaleOutput
        /\ iostat_files = {}
        /\ test_files = EmptyMap
        /\ ~summary.written
        /\ groups = StaleGroups
        /\ spawned = {}
        /\ DOMAIN monitors = {}
        /\ running = {}
        /\ \A i \in ClientIds : clients[i] = NoClient

\* C19 (witness): run() has returned 1 on a configuration file with no
\* section, isolation enabled and the resource-group file present.
C19_ReturnedOnEmptyConfig ==
    /\ pc = "returned"
    /\ exit_code = 1
    /\ config_text = T.empty
    /\ parsed # <<>>
    /\ use_cgroups
    /\ cgroup_file = "present"
    /\ files = StaleOutput

\* the cache modes the filter selects, in the order they are to be run
Selected ==
    CASE cache_mode_filter = M.cached -> <<M.cached>>
      [] cache_mode_filter = M.direct -> <<M.direct>>
      [] cache_mode_filter = M.both   -> <<M.cached, M.direct>>

\* the load generator c was launched for the cache mode m: m is in the job
\* name it was given
LaunchedFor(c, m) ==
    \E base \in {IF c.owner = Main THEN cur ELSE ClientName(c.owner)} :
        c.name = (IF c.idx = 0 THEN TestName(base, m) ELSE PhaseName(TestName(base, m), c.idx))

\* the cache modes are being iterated over
InModeLoop ==
    pc \in {"rw_mode", "rw_drop_caches", "rw_phase", "rw_system", "rw_system_single",
            "rw_check", "rw_stop_iostat", "cc_mode", "cc_drop_caches", "cc_fork_client1",
            "cc_attach_client1", "cc_fork_client2", "cc_attach_client2", "cc_wait1",
            "cc_wait2", "cc_stop_iostat"}

\* C20: the cache modes still to run are a tail of the selected ones (so
\* they are run in the selected order, each once); a load generator is
\* launched for a selected mode and has the direct option exactly when that
\* mode is direct; and a single-workload run that returns 0 has logged a
\* result for each selected mode and for no other.
C20_SelectedModesAndDirectFlag ==
    /\ InModeLoop =>
          \E k \in 0..Len(Selected) : modes = SubSeq(Selected, k + 1, Len(Selected))
    /\ \A c \in running :
          \E j \in 1..Len(Selected) :
              /\ LaunchedFor(c, Selected[j])
              /\ c.direct <=> Selected[j] = M.direct
    /\ (pc = "returned" /\ exit_code = 0 /\ mode \notin {M.dual, M.all}) =>
          {e.name : e \in {x \in log : x.kind \in {"completed", "failed"}}}
              = {TestName(mode, Selected[j]) : j \in 1..Len(Selected)}

\* C20 (witness): with the filter "both", a load generator with the direct
\* option is running after the cached mode of the same workload was logged.
C20_DirectAfterCached ==
    /\ cache_mode_filter = M.both
    /\ pc = "rw_system"
    /\ modes = <<M.direct>>
    /\ \E c \in running : c.direct /\ c.owner = Main
    /\ \E e \in log : e.name = TestName(cur, M.cached)

\* the key of a key=value line is none the parser knows: no workload key,
\* and no phase_<N>_<param> with a number N and a phase parameter
UnknownKey(key) ==
    IF IsPhaseKey(key)
    THEN \/ find(key, "_", 6) = Npos
         \/ \E n \in {substr(key, 6, find(key, "_", 6) - 6)} :
                n = <<>> \/ \E i \in 1..Len(n) : ~IsDigit(n[i])
         \/ substr_from(key, find(key, "_", 6) + 1)
               \notin {K.runtime, K.block_size, K.iodepth, K.pattern, K.ioengine,
                        K.numjobs, K.file_size, K.rate_iops}
    ELSE key \notin {K.description, K.file_size, K.block_size, K.runtime, K.numjobs,
                     K.iodepth, K.pattern, K.ioengine, K.rate_iops}
\* line is a key=value line with a key the parser does not know
UnknownKeyLine(line) ==
    /\ ~IsSkipped(line)
    /\ ~IsHeader(line)
    /\ find(line, "=", 0) # Npos
    /\ UnknownKey(LineKey(line))
KnownLine(line) == ~UnknownKeyLine(line)

CleanValue(v) ==
    /\ v # <<>> => ~IsBlank(v[1]) /\ ~IsBlank(v[Len(v)])
    /\ \A i \in 1..Len(v) : v[i] # "#"
\* the text values of a workload or of a phase
TextValues(c) == {c.file_size, c.block_size, c.pattern, c.ioengine}

MonitorRunning == \E id \in DOMAIN monitors : monitors[id] = "running"

ClientAlive(i) == clients[i].pc \notin {"none", "zombie", "reaped"}
\* a load generator or a client process is running
Busy == running # {} \/ \E i \in ClientIds : ClientAlive(i)
\* the engine is in a cache mode, between the start of the monitor and the
\* cache drop / between the cache drop and the end of the waiting / at the
\* stop of the monitor
AtDrop == pc \in {"rw_drop_caches", "cc_drop_caches"}
AfterDrop ==
    pc \in {"rw_phase", "rw_system", "rw_system_single", "rw_check", "cc_fork_client1",
            "cc_attach_client1", "cc_fork_client2", "cc_attach_client2", "cc_wait1",
            "cc_wait2"}
AtStop == pc \in {"rw_stop_iostat", "cc_stop_iostat"}
\* the log file of the monitor of the current cache mode
CurrentMonitor ==
    IF mode = M.dual THEN S.concurrent_ \o Head(modes) \o S.iostat
    ELSE TestName(cur, Head(modes)) \o S.iostat

\* C24: in a cache mode the monitor is started before the cache drop, the
\* cache is dropped before anything is launched, every load generator and
\* client has exited when the monitor is stopped, and the monitor is not
\* stopped before; the engine never has two monitors.  (Where fork() of the
\* monitor fails there is no monitor in that mode.)
C24_MonitorDropLaunchExitStop ==
    /\ Cardinality(DOMAIN monitors) <= 1
    /\ (AtDrop \/ AfterDrop \/ AtStop) =>
          /\ iostat_pid \in {NoMonitor, CurrentMonitor}
          /\ iostat_pid # NoMonitor =>
                /\ iostat_pid \in iostat_files
                /\ host.iostat => (iostat_pid \in DOMAIN monitors
                                   /\ monitors[iostat_pid] = "running")
    /\ AtDrop => (drops = 0 /\ ~Busy /\ \A p \in DOMAIN launched : launched[p] = <<>>)
    /\ Busy => (AfterDrop /\ drops = 1)
    /\ AtStop => (~Busy /\ drops = 1)
    /\ pc \in {"rw_mode", "cc_mode"} => DOMAIN monitors = {}

\* C24 (witness): the coordinator is about to stop the monitor of the
\* direct mode, the second one; both clients ran their phases and were
\* waited for, and the monitor is still running.
C24_StopAfterBothClients ==
    /\ pc = "cc_stop_iostat"
    /\ modes = <<M.direct>>
    /\ cache_mode_filter = M.both
    /\ \A i \in ClientIds : clients[i].pc = "reaped" /\ launched[i] # <<>>
    /\ iostat_pid # NoMonitor
    /\ monitors = (iostat_pid :> "running")
    /\ Cardinality(iostat_files) = 2

\* C25: the cache is dropped at most once in a cache mode of an execution,
\* and exactly once before anything is launched in it: while a load
\* generator or a client runs, and from the first launch to the end of the
\* mode, the count of drops of the mode is 1.
C25_OneDropBeforeFirstLaunch ==
    /\ drops <= 1
    /\ AtDrop => (~Busy /\ \A p \in DOMAIN launched : launched[p] = <<>>)
    /\ (Busy \/ \E p \in DOMAIN launched : launched[p] # <<>>) => drops = 1
    /\ (AfterDrop \/ AtStop) => drops = 1

\* C25 (witness): the load generator of the third phase of w is running in
\* the direct mode, the second one, and the cache was dropped once in it.
C25_ThirdPhaseAfterOneDrop ==
    /\ pc = "rw_system"
    /\ modes = <<M.direct>>
    /\ cache_mode_filter = M.both
    /\ launched[Main] = <<1, 2, 3>>
    /\ running # {}
    /\ drops = 1
    /\ "drop_caches" \in spawned

\* client i runs with isolation: use_cgroups is set and a group is configured
\* for its workload
Isolated(i) == mode = M.dual /\ use_cgroups /\ ClientWorkload(i) \in DOMAIN cgroups

\* C26: in dual mode with isolation, a client has run the command that
\* attaches itself before any of its load generators is launched; once the
\* coordinator waits, it has run the command for every client it forked;
\* and when the clients are done each one forked was the subject of both.
C26_AttachBothSidesBeforeLaunch ==
    \A i \in ClientIds :
        Isolated(i) =>
            /\ (launched[i] # <<>> \/ RunningOf(i) # {}) => <<"child", i>> \in attempts
            /\ (pc \in {"cc_wait1", "cc_wait2", "cc_stop_iostat"} /\ client_pids[i] = i)
                  => <<"parent", i>> \in attempts
            /\ (pc = "cc_stop_iostat" /\ client_pids[i] = i)
                  => <<"child", i>> \in attempts

\* C26 (witness): both clients have a load generator running, each after
\* the attach from both sides, and each is a member of its group.
C26_BothAttachedAndRunning ==
    /\ pc = "cc_wait1"
    /\ \A i \in ClientIds : Isolated(i) /\ RunningOf(i) # {}
    /\ attempts = {<<"child", 1>>, <<"parent", 1>>, <<"child", 2>>, <<"parent", 2>>}
    /\ groups[G.client1].members = {1}
    /\ groups[G.client2].members = {2}

\* dd is run for the test file of the size expression s in this step
Provisions(s) ==
    s \in DOMAIN dd_runs' /\ (s \notin DOMAIN dd_runs \/ dd_runs'[s] > dd_runs[s])

\* C27: in a run dd is run at most once for the test file of a size
\* expression, and when it is run no load generator that uses the file is
\* running and no client process is alive.
C27_ProvisionedOnceNotConcurrently ==
    [][\A s \in DOMAIN dd_runs' :
          /\ dd_runs'[s] <= 1
          /\ Provisions(s) =>
                /\ \A c \in running : c.filename # s
                /\ \A i \in ClientIds : ~ClientAlive(i)]_vars

\* the patterns with which a load generator writes to its file
WritePatterns == {V.write}

\* C28: in dual mode no load generator of one client writes to a test file
\* while a load generator of the other client uses the same file.
C28_NoWriterOnSharedFile ==
    \A c \in running : \A d \in running :
        (c.owner \in ClientIds /\ d.owner \in ClientIds /\ c.owner # d.owner
            /\ c.filename = d.filename)
            => c.rw \notin WritePatterns

\* C29: in dual mode a client with no phase that was forked has, when the
\* wait for the clients is over, launched one load generator in the cache
\* mode.
C29_LegacyClientLaunchesOnce ==
    \A i \in ClientIds :
        (/\ pc = "cc_stop_iostat"
         /\ client_pids[i] = i
         /\ workloads[ClientWorkload(i)].phases = <<>>)
            => Len(launched[i]) = 1

\* the artifact of the phase numbered n of the process that owns c, in the
\* current cache mode
NumberedArtifact(owner, n) ==
    JsonFile(PhaseName(TestName(IF owner = Main THEN cur ELSE ClientName(owner), Head(modes)),
                       n))
\* the phase number configured for the phase at position idx of a workload
ConfiguredNum(owner, idx) ==
    phase_nums[IF owner = Main THEN cur ELSE ClientWorkload(owner)][idx]

\* C30: the load generator of a phase writes its result to the artifact
\* numbered with the phase number of its phase_<N>_ keys.
C30_ArtifactKeyedByPhaseNumber ==
    \A c \in running :
        c.idx > 0 => c.output = NumberedArtifact(c.owner, ConfiguredNum(c.owner, c.idx))


\* whether setup_all_cgroups has created the configured groups in this run
GroupsCreated == "cgroup" \in spawned /\ host.sudo /\ GroupNames # {}

\* C36: a run that has created resource groups has removed them when run()
\* has returned, with 0 or with 1.
C36_GroupsRemovedAtReturn ==
    (pc = "returned" /\ GroupsCreated) => GroupNames \cap DOMAIN groups = {}

\* the message of the wait loop for client k in the current cache mode
ClientLogged(k, kind) ==
    [kind |-> kind, name |-> TestName(ClientName(k), Head(modes))] \in log

\* C37: when the wait loop of a cache mode is over, a client whose fork
\* failed is logged as failed, and a client that was forked is logged as
\* completed exactly if its own exit status is 0.
C37_WaitLogsOwnStatus ==
    pc = "cc_stop_iostat" =>
        \A k \in ClientIds :
            IF client_pids[k] = NoPid
            THEN ~ClientLogged(k, "client_ok")
            ELSE /\ ClientLogged(k, "client_ok") <=> clients[k].status = 0
                 /\ clients[k].pc = "reaped"

\* C38: when run() reaches its final cleanup_cgroups, no load generator, no
\* client process and no monitor of the run is running.
C38_TeardownAfterProcessesEnded ==
    pc = "cleanup_cgroups" => ~Busy /\ ~MonitorRunning
\* the final cleanup of a dual run with resource groups in which both
\* clients were forked and have been reaped
C38_TeardownAfterDualRun ==
    /\ pc = "cleanup_cgroups"
    /\ mode = M.dual /\ GroupsCreated
    /\ \A i \in ClientIds : clients[i].pc = "reaped"

\* C40: every run eventually ends: the engine process does not stay
\* blocked in a wait for a client or for the monitor.
C40_RunEventuallyEnds == <>Ended

\* the phase numbers the section s declares are not 1..n
HasGap(text, s) ==
    DeclaredNums(text, s) # 1..Cardinality(DeclaredNums(text, s))

\* C31: when parse_config_file has returned true, a workload whose phase
\* numbers are not contiguous from 1 has one phase per declared number, and
\* a message that names the workload has been logged.
C31_GapKeptAndWarned ==
    (pc = "parse_cgroup_config" /\ parsed # <<>>) =>
        \A s \in DOMAIN workloads :
            HasGap(config_text, s) =>
                /\ Len(workloads[s].phases) = Cardinality(DeclaredNums(config_text, s))
                /\ \E e \in log : e.name = s

\* the positions in cmds of the commands op
At(op) == {i \in 1..Len(cmds) : cmds[i][1] = op}

C33_EnabledOnEveryAncestor ==
    pc = "dispatch" =>
        \A i \in At("counts") : \A a \in Ancestors(cmds[i][2]) \cup {<<>>} :
            \E j \in At("enable") : j < i /\ cmds[j][2] = a

\* C34: when setup_cgroup has run for the groups, in the later and in the
\* earlier variant, no setting whose control file does not exist was
\* written, and for every group success_count + fail_count is the number of
\* the settings configured for the group.
C34_EveryKnobCounted ==
    pc \in {"dispatch", "setup_earlier"} =>
        /\ \A j \in At("tee") : cmds[j][3] \in host.knob_files
        /\ \A i \in At("counts") : \E c \in DOMAIN cgroups :
               /\ cgroups[c].cgroup_name = cmds[i][2]
               /\ cmds[i][3][1] + cmds[i][3][2] = Cardinality(DOMAIN cgroups[c].settings)

\* C35: when setup_cgroup has run for the groups, the log holds for every
\* group it set up a message with the success count and the failure count of
\* the group, also when no setting was applied.
C35_CountsReportedPerGroup ==
    pc \in {"dispatch", "setup_earlier"} =>
        \A i \in At("counts") : \E r \in log :
            /\ r.kind = "cgroup_setup"
            /\ r.name = cmds[i][2]
            /\ r.applied = cmds[i][3][1]
            /\ r.failed = cmds[i][3][2]

\* C39: on a host where sudo works, every kill and every rmdir of
\* cleanup_cgroups names the group of a
\* section of the group configuration or the group "clients", and none
\* names the base node, whose path is the empty group name.
C39_OnlyConfiguredGroupsKilled ==
    host.sudo => \A i \in At("kill") \cup At("rmdir") :
        /\ cmds[i][2] # <<>>
        /\ cmds[i][2] \in GroupNames \cup {G.clients}
====
